---------------------------- MODULE Spec2Model ----------------------------
(***************************************************************************)
(* Thanos Ruler (cmd/thanos/rule.go): the remote query function, the alert *)
(* queue with its sender loop, and the rule-file reload loop.              *)
(*                                                                         *)
(* The specifications share the variables:                                 *)
(*   SpecQuery      queryFunc and the DNS resolve loop that feeds it       *)
(*   SpecCancel     queryFunc under a context that may be cancelled        *)
(*   SpecDiscovery  file SD, the rounds of the DNS provider and queryFunc  *)
(*   SpecAlert      notify -> alert queue -> sender loop -> Alertmanagers  *)
(*   SpecAMSet      alertmanagerSet.update over the configured URL lists   *)
(*   SpecReload     the reload loop, its triggers and Managers.Update      *)
(* Each one leaves the variables it does not use at their initial value.   *)
(***************************************************************************)
EXTENDS Integers, Sequences, FiniteSets, TLC

VARIABLES
    \* ---- query function ----
    dnsAddrs,          \* dnsProvider.Addresses(): the published snapshot
    qf,                \* the call of the query function in progress, or the last one
    duplicatedQuery,   \* thanos_rule_duplicated_query_address
    ruleEvalWarnings,  \* thanos_rule_evaluation_with_warnings_total{strategy}
    ncalls,            \* calls of the query function made so far
    nresolves,         \* resolve rounds made so far
    \* ---- alert pipeline ----
    queue,             \* alertQ: the queued notifications, oldest first
    qDropped,          \* the queue's drop counter
    nextId,            \* identity of the next notification notify allocates
    evicted,           \* history: ids of the notifications Push evicted
    popLog,            \* history: the batches Pop returned, in order
    sendLog,           \* history: the batches handed to Send, in order
    lastReplies,       \* history: did some replica answer 2xx, did some fail, in the last Send
    sender,            \* the sender actor: position and the batch it holds
    senderCtxDone,     \* the sender actor's context is cancelled
    sent,              \* thanos_alert_sender_alerts_sent_total
    dropped,           \* thanos_alert_sender_alerts_dropped_total
    amCurrent,         \* alertmanagerSet.current
    amErrors,          \* thanos_rule_alertmanager_address_resolution_errors
    amAddrs,           \* alertmanagerSet.addrs: the configured URLs
    amLast,            \* history: how the last update ended and what it looked up
    \* ---- discovery and cancellation ----
    qctx,              \* the context the query function is called with
    fileSDCache,       \* fileSDCache.Addresses()
    round,             \* the resolve round of the DNS provider, in progress or last
    \* ---- reload ----
    reload,            \* the reload channel (capacity 1): events buffered
    disk,              \* the content of each rule file
    ruleMgrs,          \* per strategy: the live rule groups of the manager
    configSuccess,     \* thanos_rule_config_last_reload_successful
    configSuccessTime, \* thanos_rule_config_last_reload_success_timestamp_seconds
    rulesLoaded,       \* thanos_rule_loaded_rules{strategy,file,group}
    now,               \* the wall clock: reload runs made so far
    reloadErr,         \* history: how the last reload run ended
    ntriggers,         \* history: SIGHUPs delivered and POST /-/reload accepted so far
    served,            \* history: ntriggers when the last reload run began, -1 before the first
    post,              \* the POST /-/reload handler: idle, or blocked in its send
    \* ---- run group ----
    sig,               \* per actor: the channel or context its shutdown callback closes
    panicked,          \* a close of a closed channel has panicked
    grp,               \* run.Group.Run: its position and the next callback to invoke
    returned,          \* the actors whose function has returned
    db,                \* the local TSDB: open, closing or closed
    mgrCtxDone,        \* the rule manager contexts that are cancelled
    mgrStopped,        \* the rule managers whose Stop has returned
    issued,             \* history: the remote queries issued, by manager and strategy
    syncs,             \* history: the outcomes of the shipper's Sync calls
    \* startup, recording rules and the history of notify
    flags,             \* the --query addresses and the number of file-SD files given
    boot,              \* where the startup is, its error, what it has opened and added
    lset,              \* the external labels parsed from --label
    head,              \* the label sets of the series appended to the local TSDB
    notifyLog,         \* history: the last call of notify, where it is kept
    \* the object-store test harness, a stepwise update, file-SD shutdown, receive
    fs,                \* ForeachStore: the environment, where it is, what it ran
    upd,               \* alertmanagerSet.update in steps: its position and local result
    sd,                \* the file-SD actors and their channel
    rcv                \* runReceive: its actors, channels, storage and handler

qvars == <<dnsAddrs, qf, duplicatedQuery, ruleEvalWarnings, ncalls, nresolves>>

avars == <<queue, qDropped, nextId, evicted, popLog, sendLog, lastReplies, sender,
           senderCtxDone, sent, dropped, amCurrent, amErrors, amAddrs, amLast>>

rvars == <<reload, disk, ruleMgrs, configSuccess, configSuccessTime, rulesLoaded, now,
           reloadErr, ntriggers, served, post>>

gvars == <<sig, panicked, grp, returned, db, mgrCtxDone, mgrStopped, issued, syncs>>

dvars == <<qctx, fileSDCache, round>>

svars == <<flags, boot, lset, head, notifyLog>>
xvars == <<fs, upd, sd, rcv>>
vars == <<qvars, avars, rvars, dvars, gvars, svars, xvars>>

(***************************************************************************)
(* Bounds.                                                                 *)
(***************************************************************************)
MaxAddrs == 2      \* longest address snapshot
MaxCalls == 2      \* calls of the query function in a run
MaxResolves == 1   \* resolve rounds of the DNS loop in a run
QueueCapacity == 3 \* capacity of the alert queue (10000 in the ruler, scaled)
MaxBatch == 2      \* max-batch of the alert queue (100 in the ruler, scaled)
MaxPushed == 4     \* notifications notify may allocate in a run
MaxRecords == 2    \* records one DNS lookup returns
MaxAMErrors == 1   \* failed Alertmanager refreshes in a run
MaxTriggers == 3   \* SIGHUPs and POST /-/reload requests in a run
MaxSyncs == 2      \* ticks of the shipper loop in a run
MaxQueries == 2    \* --query flags on a command line
MaxSeries == 3     \* series appended by recording rules in a run
MaxHashrings == 3  \* hashrings the config watcher produces in a run
MaxNotify == 1     \* alerts of one ordinary notify call
MaxEntries == 2    \* configured Alertmanager URLs
MaxRounds == 2     \* rounds of the DNS provider in a run of the discovery

(***************************************************************************)
(* Generic helpers.                                                        *)
(***************************************************************************)
Range(s) == {s[i] : i \in 1..Len(s)}

SeqsUpTo(S, n) == UNION {[1..k -> S] : k \in 0..n}

Min(a, b) == IF a <= b THEN a ELSE b

Max(a, b) == IF a >= b THEN a ELSE b

(***************************************************************************)
(* Strings are sequences of tokens (runs of characters): a scheme with its *)
(* "://", a name, ":", a run of digits, "+", "@", a path.                  *)
(***************************************************************************)
Digits == {"0", "1", "2", "3", "4", "5", "6", "7", "8", "9", "9093"}

SchemeTokens == {"http://", "https://"}

PathTokens == {"/p", "/", "/a"}

\* strings.Index: position of the first token t of s, 0 when there is none.
IndexOf(s, t) ==
    LET cs == {i \in 1..Len(s) : s[i] = t}
    IN  IF cs = {} THEN 0 ELSE CHOOSE i \in cs : \A j \in cs : i <= j

\* Position of the first path token of s, Len(s) + 1 when there is none.
PathStart(s) ==
    LET cs == {i \in 1..Len(s) : s[i] \in PathTokens}
    IN  IF cs = {} THEN Len(s) + 1 ELSE CHOOSE i \in cs : \A j \in cs : i <= j

AddrA == <<"a", ":", "9">>
AddrB == <<"b", ":", "9">>
AddrX == <<"c", ":", "x">>

QueryAddrs == {AddrA, AddrB, AddrX}

\* Position of the last ':' of a host, 0 when there is none.
LastColon(s) ==
    LET cs == {i \in 1..Len(s) : s[i] = ":"}
    IN  IF cs = {} THEN 0 ELSE CHOOSE i \in cs : \A j \in cs : j <= i

\* url.Parse of a string that begins with a scheme: scheme, then the
\* authority up to the first path token (user info before "@", then the
\* host, whose optional port must be digits), then the path.  A string
\* without "://" and without ':' is a bare path.
URLParse(s) ==
    IF s = <<>> \/ Head(s) \notin SchemeTokens
    THEN [ok |-> TRUE, scheme |-> "", user |-> <<>>, host |-> <<>>, path |-> s]
    ELSE LET ps == PathStart(s)
             auth == SubSeq(s, 2, ps - 1)
             at == IndexOf(auth, "@")
             host == SubSeq(auth, at + 1, Len(auth))
             c == LastColon(host)
         IN  [ok |-> c = 0 \/ \A i \in (c + 1)..Len(host) : host[i] \in Digits,
              scheme |-> Head(s),
              user |-> SubSeq(auth, 1, at - 1),
              host |-> host,
              path |-> SubSeq(s, ps, Len(s))]

\* url.Parse(fmt.Sprintf("http://%s", addr)) of the query function.
URLParseOK(addr) == URLParse(<<"http://">> \o addr).ok

(***************************************************************************)
(* The query function, rule.go queryFunc.                                  *)
(***************************************************************************)
Strategies == {"ABORT", "WARN"}

ErrNil == "nil"
ErrNoPeer == "no query peer reachable"
ErrURLParse == "url parse"

NoVector == <<>>

\* rand.Perm(n): the permutations of 1..n, as sequences.
Perm(n) == {p \in [1..n -> 1..n] : \A i, j \in 1..n : p[i] = p[j] => i = j}

\* removeDuplicateQueryAddrs: the number of increments of the duplicate
\* counter (one per element already seen) and the deduplicated slice (its
\* order is the map's iteration order, so any order of the set).
DuplicateCount(addrs) == Len(addrs) - Cardinality(Range(addrs))

removeDuplicateQueryAddrs(addrs) ==
    {d \in [1..Cardinality(Range(addrs)) -> Range(addrs)] : Range(d) = Range(addrs)}

\* promclient.PromqlQueryInstant against the server at addr: a transport
\* error or non-2xx answer, or the server's vector with no warning or with
\* several.  Under a cancelled context the request fails.
VectorOf(addr) == <<"vector", addr>>

WarningCounts == {0, 2}

PromqlQueryInstant(addr) ==
    {[ok |-> FALSE, v |-> NoVector, warns |-> 0]}
        \cup {[ok |-> TRUE, v |-> VectorOf(addr), warns |-> w] : w \in WarningCounts}

Request(ctx, addr) ==
    IF ctx.done THEN {o \in PromqlQueryInstant(addr) : ~o.ok} ELSE PromqlQueryInstant(addr)

\* Mutant: during a round Addresses() returns the list the round is filling.
Addresses_InProgress == IF round.active THEN round.buf ELSE dnsAddrs

\* dnsProvider.Addresses(): the snapshot the provider published last.
Addresses == dnsAddrs

\* The state of one call.  Calls of the two managers share nothing but the
\* counters, which they only increment, so one call at a time is modelled;
\* the call carries the strategy of the manager that makes it.
IdleCall ==
    [pc |-> "idle", strategy |-> "ABORT", addrs |-> <<>>, perm |-> <<>>, k |-> 1,
     tried |-> <<>>, reqs |-> <<>>, res |-> [err |-> ErrNil, v |-> NoVector]]

\* Mutant: the loop's exhaustion returns an empty vector and no error.
LoopEnd_NilError(c) ==
    IF c.k > Len(c.perm)
    THEN [c EXCEPT !.pc = "done", !.res = [err |-> ErrNil, v |-> NoVector]]
    ELSE c

\* The statement after the loop: return nil, errors.Errorf("no query peer reachable").
LoopEnd(c) ==
    IF c.k > Len(c.perm)
    THEN [c EXCEPT !.pc = "done", !.res = [err |-> ErrNoPeer, v |-> NoVector]]
    ELSE c

\* Entry of the returned closure: snapshot, (discarded) dedup, rand.Perm.
CallEntry(s, addrs, perm) ==
    LoopEnd([IdleCall EXCEPT !.pc = "loop", !.strategy = s, !.addrs = addrs,
                             !.perm = perm])

\* Mutant: a successful answer does not return; the loop goes on.
LoopBody_NoReturn(c, o) ==
    LET i == c.perm[c.k]
        a == c.addrs[i]
        t == [c EXCEPT !.tried = Append(@, i)]
    IN  IF ~URLParseOK(a)
        THEN [t EXCEPT !.pc = "done", !.res = [err |-> ErrURLParse, v |-> NoVector]]
        ELSE LoopEnd([t EXCEPT !.reqs = Append(@, [idx |-> i, addr |-> a, ok |-> o.ok,
                                                    v |-> o.v, warns |-> o.warns]),
                               !.k = @ + 1])

\* One iteration of "for _, i := range rand.Perm(len(addrs))" with the
\* answer o of the server, which is consulted only if the URL parses.
LoopBody(c, o) ==
    LET i == c.perm[c.k]
        a == c.addrs[i]
        t == [c EXCEPT !.tried = Append(@, i)]
    IN  IF ~URLParseOK(a)
        THEN [t EXCEPT !.pc = "done", !.res = [err |-> ErrURLParse, v |-> NoVector]]
        ELSE LET r == [t EXCEPT !.reqs = Append(@, [idx |-> i, addr |-> a, ok |-> o.ok,
                                                     v |-> o.v, warns |-> o.warns])]
             IN  IF o.ok
                 THEN [r EXCEPT !.pc = "done", !.res = [err |-> ErrNil, v |-> o.v]]
                 ELSE LoopEnd([r EXCEPT !.k = @ + 1])

\* Mutant: the counter is incremented once per warning.
WarningsInc_PerWarning(c, o) ==
    IF URLParseOK(c.addrs[c.perm[c.k]]) /\ o.ok THEN o.warns ELSE 0

\* len(warns) > 0 on a successful answer: the per-strategy counter is incremented.
WarningsInc(c, o) ==
    IF URLParseOK(c.addrs[c.perm[c.k]]) /\ o.ok /\ o.warns > 0 THEN 1 ELSE 0

\* The rule manager calls the query function (rule.go 745-752).
QueryCall(s) ==
    /\ qf.pc \in {"idle", "done"}
    /\ ncalls < MaxCalls
    /\ \E perm \in Perm(Len(Addresses)) :
          qf' = CallEntry(s, Addresses, perm)
    /\ duplicatedQuery' = duplicatedQuery + DuplicateCount(Addresses)
    /\ ncalls' = ncalls + 1
    /\ round' = IF round.active THEN [round EXCEPT !.reads = @ + 1] ELSE round
    /\ UNCHANGED <<dnsAddrs, ruleEvalWarnings, nresolves>>
    /\ UNCHANGED <<qctx, fileSDCache>>
    /\ UNCHANGED <<avars, rvars, gvars, svars, xvars>>

\* One attempt of the running call (rule.go 752-776).
QueryAttempt ==
    /\ qf.pc = "loop"
    /\ \E o \in Request(qctx, qf.addrs[qf.perm[qf.k]]) :
          /\ qf' = LoopBody(qf, o)
          /\ ruleEvalWarnings' =
                [ruleEvalWarnings EXCEPT ![qf.strategy] = @ + WarningsInc(qf, o)]
    /\ UNCHANGED <<dnsAddrs, duplicatedQuery, ncalls, nresolves>>
    /\ UNCHANGED <<avars, rvars, dvars, gvars, svars, xvars>>

(***************************************************************************)
(* The DNS resolve loop (rule.go 474-485) publishes a new snapshot.  The   *)
(* provider concatenates what each configured address resolved to.         *)
(***************************************************************************)
Snapshots == SeqsUpTo(QueryAddrs, MaxAddrs)

Resolve ==
    /\ nresolves < MaxResolves
    /\ \E snap \in Snapshots : dnsAddrs' = snap
    /\ nresolves' = nresolves + 1
    /\ UNCHANGED <<qf, duplicatedQuery, ruleEvalWarnings, ncalls>>
    /\ UNCHANGED <<avars, rvars, dvars, gvars, svars, xvars>>

\* The evaluation context is cancelled while a call is running: the
\* history keeps the call and the number of addresses it had reached.
QueryCancel ==
    /\ ~qctx.done
    /\ qf.pc = "loop"
    /\ qctx' = [done |-> TRUE, call |-> ncalls, at |-> Len(qf.tried)]
    /\ UNCHANGED <<fileSDCache, round>>
    /\ UNCHANGED <<qvars, avars, rvars, gvars, svars, xvars>>

(***************************************************************************)
(* File SD (rule.go 383-400) and the rounds of the DNS provider.  The loop *)
(* at 477-481 hands the provider the file SD addresses followed by the     *)
(* static ones; a round resolves them one by one into a list of its own    *)
(* and publishes the list when it is complete.                             *)
(***************************************************************************)
\* The --query flag values.
queryAddrs == <<AddrA>>

\* What the file SD watcher sends: nil, or groups whose targets flatten to
\* these addresses.
FileSDUpdates ==
    {[nil |-> TRUE, addrs |-> <<>>]}
        \cup {[nil |-> FALSE, addrs |-> a] : a \in {<<>>, <<AddrB>>, <<AddrX>>}}

\* case update := <-fileSDUpdates: nil is skipped, else fileSDCache.Update.
FileSDUpdate ==
    /\ \E update \in FileSDUpdates :
          fileSDCache' = IF update.nil THEN fileSDCache ELSE update.addrs
    /\ UNCHANGED <<qctx, round>>
    /\ UNCHANGED <<qvars, avars, rvars, gvars, svars, xvars>>

\* A round: the addresses it was handed, the list it has filled so far, and
\* as history the snapshot published when it began and the number of
\* Addresses() calls made while it was running.
IdleRound == [active |-> FALSE, input |-> <<>>, buf |-> <<>>, pre |-> <<>>, reads |-> 0]

\* A tick of the resolve loop: dnsProvider.Resolve(ctx, append(fileSDCache.Addresses(), queryAddrs...)).
ResolveBegin ==
    /\ ~round.active
    /\ nresolves < MaxRounds
    /\ round' = [active |-> TRUE, input |-> fileSDCache \o queryAddrs, buf |-> <<>>,
                 pre |-> dnsAddrs, reads |-> 0]
    /\ nresolves' = nresolves + 1
    /\ UNCHANGED <<dnsAddrs, qf, duplicatedQuery, ruleEvalWarnings, ncalls>>
    /\ UNCHANGED <<qctx, fileSDCache>>
    /\ UNCHANGED <<avars, rvars, gvars, svars, xvars>>

\* The round resolves its next address (one without prefix resolves to itself).
ResolveStep ==
    /\ round.active
    /\ Len(round.buf) < Len(round.input)
    /\ round' = [round EXCEPT !.buf = Append(@, round.input[Len(round.buf) + 1])]
    /\ UNCHANGED <<qctx, fileSDCache>>
    /\ UNCHANGED <<qvars, avars, rvars, gvars, svars, xvars>>

\* The round is complete: its list replaces the published snapshot.
ResolveEnd ==
    /\ round.active
    /\ Len(round.buf) = Len(round.input)
    /\ dnsAddrs' = round.buf
    /\ round' = [round EXCEPT !.active = FALSE]
    /\ UNCHANGED <<qf, duplicatedQuery, ruleEvalWarnings, ncalls, nresolves>>
    /\ UNCHANGED <<qctx, fileSDCache>>
    /\ UNCHANGED <<avars, rvars, gvars, svars, xvars>>

DInit ==
    /\ qctx = [done |-> FALSE, call |-> 0, at |-> 0]
    /\ fileSDCache = <<>>
    /\ round = IdleRound

CNext ==
    \/ \E s \in Strategies : QueryCall(s)
    \/ QueryAttempt
    \/ Resolve
    \/ QueryCancel

DNext ==
    \/ \E s \in Strategies : QueryCall(s)
    \/ QueryAttempt
    \/ FileSDUpdate
    \/ ResolveBegin
    \/ ResolveStep
    \/ ResolveEnd

QInit ==
    /\ dnsAddrs = <<>>
    /\ qf = IdleCall
    /\ duplicatedQuery = 0
    /\ ruleEvalWarnings = [s \in Strategies |-> 0]
    /\ ncalls = 0
    /\ nresolves = 0

QNext ==
    \/ \E s \in Strategies : QueryCall(s)
    \/ QueryAttempt
    \/ Resolve

(***************************************************************************)
(* The Alertmanager set, rule.go alertmanagerSet.                          *)
(***************************************************************************)
defaultAlertmanagerPort == 9093

AMStatic == <<"http://", "am1", ":", "9">>
AMDns == <<"dns", "+", "http://", "u", "@", "am2", "/p">>
AMDnsPort == <<"dns", "+", "http://", "am2", ":", "9">>
AMSrv == <<"dnssrv", "+", "https://", "am3", "/p">>
AMPlus == <<"http://", "am1", ":", "9", "/a", "+", "b">>

\* The --alertmanagers.url flag values.
alertmgrURLs == <<AMStatic, AMDns>>

\* The lists of flag values the set may be constructed with.
AMConfigs == SeqsUpTo({AMStatic, AMDns, AMDnsPort, AMSrv, AMPlus}, MaxEntries)

\* strings.SplitN(addr, "+", 2).
SplitN(addr) ==
    LET i == IndexOf(addr, "+")
    IN  IF i = 0 THEN <<addr>>
        ELSE <<SubSeq(addr, 1, i - 1), SubSeq(addr, i + 1, Len(addr))>>

\* net.SplitHostPort(host) returns no error: the host carries a port.
SplitHostPortOK(host) == LastColon(host) # 0

\* strconv.Itoa(defaultAlertmanagerPort)
Itoa(n) == IF n = 9093 THEN "9093" ELSE "0"

\* The hosts DNS knows for a name, in the order the server lists them.
IPs == <<"ip2", "ip1", "ip3", "ip4">>

\* The record lists a lookup may answer with: none, the first, the first two, ...
RecordLists(records) == {SubSeq(records, 1, n) : n \in 0..Min(MaxRecords, Len(records))}

\* dns.Resolver.Resolve(ctx, host, qtype): an error, or the records found.
\* An A lookup keeps the port of the name; an SRV lookup yields its own;
\* any other query type is an error.
ResolverResolve(host, qtype) ==
    LET c == LastColon(host)
        port == IF qtype = <<"dns">> /\ c # 0 THEN SubSeq(host, c, Len(host))
                ELSE <<":", "9">>
        records == [n \in 1..Len(IPs) |-> <<IPs[n]>> \o port]
    IN  {[err |-> TRUE, addrs |-> <<>>]}
            \cup IF qtype \in {<<"dns">>, <<"dnssrv">>}
                 THEN {[err |-> FALSE, addrs |-> r] : r \in RecordLists(records)}
                 ELSE {}

\* Mutant: the default port is appended for every query type.
UpdateEntry_AppendForSRV(addr) ==
    LET nameQtype == SplitN(addr)
        name == IF Len(nameQtype) = 2 THEN nameQtype[2] ELSE addr
        qtype == IF Len(nameQtype) = 2 THEN nameQtype[1] ELSE <<>>
        u == URLParse(name)
        host == IF qtype # <<>> /\ ~SplitHostPortOK(u.host)
                THEN u.host \o <<":", Itoa(defaultAlertmanagerPort)>>
                ELSE u.host
    IN  [u |-> u, qtype |-> qtype, host |-> host]

\* The body of the loop of update for one configured address, up to the
\* lookup: the name, the query type and the host handed to the resolver.
UpdateEntry(addr) ==
    LET nameQtype == SplitN(addr)
        name == IF Len(nameQtype) = 2 THEN nameQtype[2] ELSE addr
        qtype == IF Len(nameQtype) = 2 THEN nameQtype[1] ELSE <<>>
        u == URLParse(name)
        host == IF qtype = <<"dns">> /\ ~SplitHostPortOK(u.host)
                THEN u.host \o <<":", Itoa(defaultAlertmanagerPort)>>
                ELSE u.host
    IN  [u |-> u, qtype |-> qtype, host |-> host]

\* Mutant: every URL of an entry keeps the configured host.
EntryURLs_ConfiguredHost(u, resolvedDomain) ==
    [i \in 1..Len(resolvedDomain) |->
        [scheme |-> u.scheme, host |-> u.host, path |-> u.path, user |-> u.user]]

\* The URLs one entry contributes for the resolved host:port list.
EntryURLs(u, resolvedDomain) ==
    [i \in 1..Len(resolvedDomain) |->
        [scheme |-> u.scheme, host |-> resolvedDomain[i], path |-> u.path, user |-> u.user]]

\* alertmanagerSet.update over addrs[i..] with result so far: the possible
\* returns, one per combination of lookup answers.  The trace is history:
\* per entry reached, the query type and host of its lookup (no query
\* type: no lookup) and, when update succeeds, the host:port list it
\* resolved to.
RECURSIVE UpdateFrom(_, _, _)
UpdateFrom(i, result, trace) ==
    IF i > Len(amAddrs) THEN {[err |-> FALSE, result |-> result, trace |-> trace]}
    ELSE LET e == UpdateEntry(amAddrs[i])
             t(rd) == Append(trace, [qtype |-> e.qtype, host |-> e.host, records |-> rd])
             lookups == [j \in 1..(Len(trace) + 1) |-> [t(<<>>)[j] EXCEPT !.records = <<>>]]
         IN  IF ~e.u.ok THEN {[err |-> TRUE, result |-> result, trace |-> trace]}
             ELSE IF e.qtype # <<>>
             THEN UNION {IF r.err THEN {[err |-> TRUE, result |-> result, trace |-> lookups]}
                         ELSE UpdateFrom(i + 1, result \o EntryURLs(e.u, r.addrs), t(r.addrs))
                         : r \in ResolverResolve(e.host, e.qtype)}
             ELSE UpdateFrom(i + 1, result \o EntryURLs(e.u, <<e.host>>), t(<<e.host>>))

NoUpdate == [kind |-> "none", trace |-> <<>>]

\* runutil.Repeat(interval, stopc, f): the loop goes on after f returned nil
\* and returns f's error otherwise.
RepeatAfter(a, ret) == IF ret = "nil" THEN returned ELSE returned \cup {a}

\* Mutant: the callback hands the error of update to Repeat.
AMTick_ReturnsErr(err) == IF err THEN "err" ELSE "nil"

\* What the callback of the refresh loop returns (rule.go 358-363): nil,
\* whether update failed or not.
AMTick(err) == "nil"

\* What the callback of the shipper loop returns (rule.go 589-592).
ShipTick(err) == "nil"

\* The refresh loop (rule.go 357-364): one tick calls update; a failure is
\* counted and leaves current alone, a success replaces current.
AMRefresh ==
    /\ "amRefresh" \notin returned
    /\ \E o \in UpdateFrom(1, <<>>, <<>>) :
          /\ returned' = RepeatAfter("amRefresh", AMTick(o.err))
          /\ IF o.err
             THEN /\ amErrors < MaxAMErrors
                  /\ amErrors' = amErrors + 1
                  /\ UNCHANGED amCurrent
             ELSE /\ amCurrent' = o.result
                  /\ UNCHANGED amErrors
          /\ amLast' = [kind |-> IF o.err THEN "err" ELSE "ok", trace |-> o.trace]
    /\ UNCHANGED <<queue, qDropped, nextId, evicted, popLog, sendLog, lastReplies,
                   sender, senderCtxDone, sent, dropped, amAddrs>>
    /\ UNCHANGED <<sig, panicked, grp, db, mgrCtxDone, mgrStopped, issued, syncs>>
    /\ UNCHANGED <<qvars, rvars, dvars, svars, xvars>>

(***************************************************************************)
(* The alert queue (alert.Queue) as the ruler constructs it, and notify.   *)
(***************************************************************************)
NewQueue(capacity, maxBatch) == [capacity |-> capacity, maxBatch |-> maxBatch]

\* alert.NewQueue(logger, reg, 10000, 100, ...)
alertQ == NewQueue(QueueCapacity, MaxBatch)

Ids(s) == [i \in 1..Len(s) |-> s[i].id]

\* Mutant: Push appends without evicting.
Push_NoEviction(q, alerts) ==
    [queue |-> q \o alerts, evictedIds |-> {}, dropped |-> 0]

\* Mutant: on overflow Push keeps the oldest entries and drops the newest.
Push_DropNewest(q, alerts) ==
    LET all == q \o alerts
        d == Max(0, Len(all) - alertQ.capacity)
    IN  [queue |-> SubSeq(all, 1, Len(all) - d),
         evictedIds |-> {all[i].id : i \in (Len(all) - d + 1)..Len(all)},
         dropped |-> d]

\* Push(alerts): append; evict the oldest entries beyond the capacity and
\* count them.  An empty push changes nothing.
Push(q, alerts) ==
    LET all == q \o alerts
        d == Max(0, Len(all) - alertQ.capacity)
    IN  [queue |-> SubSeq(all, d + 1, Len(all)),
         evictedIds |-> {all[i].id : i \in 1..d},
         dropped |-> d]

\* Mutant: Pop returns the batch and leaves it in the queue.
Pop_NoRemove(q) ==
    LET n == Min(Len(q), alertQ.maxBatch)
    IN  [batch |-> SubSeq(q, 1, n), queue |-> q]

\* Pop on a non-empty queue: the oldest min(len, max-batch) entries, removed.
Pop(q) ==
    LET n == Min(Len(q), alertQ.maxBatch)
    IN  [batch |-> SubSeq(q, 1, n), queue |-> SubSeq(q, n + 1, Len(q))]

\* The alerts a rule hands to notify: time 0 is the zero time.
RuleAlerts ==
    {[State |-> "Pending", FiredAt |-> 0, ResolvedAt |-> 0],
     [State |-> "Firing", FiredAt |-> 1, ResolvedAt |-> 0],
     [State |-> "Inactive", FiredAt |-> 1, ResolvedAt |-> 2]}

\* Mutant: the loop does not skip pending alerts.
RECURSIVE NotifyRes_KeepsPending(_, _)
NotifyRes_KeepsPending(alerts, id) ==
    IF alerts = <<>> THEN <<>>
    ELSE LET alrt == Head(alerts)
         IN  <<[id |-> id, StartsAt |-> alrt.FiredAt,
                EndsAt |-> IF alrt.ResolvedAt # 0 THEN alrt.ResolvedAt ELSE 0]>>
                 \o NotifyRes_KeepsPending(Tail(alerts), id + 1)

\* Mutant: the loop never sets EndsAt.
RECURSIVE NotifyRes_NoEndsAt(_, _)
NotifyRes_NoEndsAt(alerts, id) ==
    IF alerts = <<>> THEN <<>>
    ELSE LET alrt == Head(alerts)
         IN  IF alrt.State = "Pending" THEN NotifyRes_NoEndsAt(Tail(alerts), id)
             ELSE <<[id |-> id, StartsAt |-> alrt.FiredAt, EndsAt |-> 0]>>
                      \o NotifyRes_NoEndsAt(Tail(alerts), id + 1)

\* The loop of notify (rule.go 283-299): res, with fresh identities from id.
RECURSIVE NotifyRes(_, _)
NotifyRes(alerts, id) ==
    IF alerts = <<>> THEN <<>>
    ELSE LET alrt == Head(alerts)
         IN  IF alrt.State = "Pending" THEN NotifyRes(Tail(alerts), id)
             ELSE <<[id |-> id, StartsAt |-> alrt.FiredAt,
                     EndsAt |-> IF alrt.ResolvedAt # 0 THEN alrt.ResolvedAt ELSE 0]>>
                      \o NotifyRes(Tail(alerts), id + 1)

\* One list with a pending alert between a firing and a resolved one.
MixedAlerts ==
    <<[State |-> "Firing", FiredAt |-> 1, ResolvedAt |-> 0],
      [State |-> "Pending", FiredAt |-> 0, ResolvedAt |-> 0],
      [State |-> "Inactive", FiredAt |-> 1, ResolvedAt |-> 2]>>

\* The alert lists notify is called with: every short list, the mixed list,
\* and one list of firing alerts that alone is longer than the queue's
\* capacity.
NotifyInputs ==
    SeqsUpTo(RuleAlerts, MaxNotify)
        \cup {MixedAlerts}
        \cup {[i \in 1..(QueueCapacity + 1) |->
                  [State |-> "Firing", FiredAt |-> 1, ResolvedAt |-> 0]]}

\* notify (rule.go 282-301): build res and alertQ.Push(res).
Notify ==
    /\ \E alerts \in NotifyInputs :
          LET res == NotifyRes(alerts, nextId)
              p == Push(queue, res)
          IN  /\ nextId + Len(res) <= MaxPushed + 1
              /\ nextId' = nextId + Len(res)
              /\ queue' = p.queue
              /\ evicted' = evicted \cup p.evictedIds
              /\ qDropped' = qDropped + p.dropped
              /\ notifyLog' = IF notifyLog.on
                              THEN [on |-> TRUE, alerts |-> alerts, res |-> res]
                              ELSE notifyLog
    /\ UNCHANGED <<flags, boot, lset, head>>
    /\ UNCHANGED <<popLog, sendLog, lastReplies, sender, senderCtxDone, sent, dropped,
                   amCurrent, amErrors, amAddrs, amLast>>
    /\ UNCHANGED <<qvars, rvars, dvars, gvars, xvars>>

(***************************************************************************)
(* The sender actor (rule.go 337-352): sdr.Send(ctx, alertQ.Pop(done)).    *)
(***************************************************************************)
\* alertQ.Pop(ctx.Done()) returns: a batch when alerts are queued, nil when
\* the context is cancelled (either one when both hold).
SenderPop ==
    /\ sender.pc = "pop"
    /\ \/ /\ queue # <<>>
          /\ sender' = [pc |-> "send", batch |-> Pop(queue).batch]
          /\ queue' = Pop(queue).queue
       \/ /\ senderCtxDone
          /\ sender' = [pc |-> "send", batch |-> <<>>]
          /\ UNCHANGED queue
    /\ popLog' = Append(popLog, Ids(sender'.batch))
    /\ UNCHANGED <<qDropped, nextId, evicted, sendLog, lastReplies, senderCtxDone, sent,
                   dropped, amCurrent, amErrors, amAddrs, amLast>>
    /\ UNCHANGED <<qvars, rvars, dvars, gvars, svars, xvars>>

\* Mutant: Send succeeds only if every replica answered 2xx.
Send_AllMustAck(batch, replies) ==
    IF batch = <<>> THEN [sent |-> 0, dropped |-> 0]
    ELSE IF replies # <<>> /\ \A i \in 1..Len(replies) : replies[i]
    THEN [sent |-> Len(batch), dropped |-> 0]
    ELSE [sent |-> 0, dropped |-> Len(batch)]

\* Sender.Send(ctx, alerts) with the replicas' answers: nothing for an empty
\* batch; sent grows by the batch size if a replica answered 2xx, else dropped.
Send(batch, replies) ==
    LET numSuccess == Cardinality({i \in 1..Len(replies) : replies[i]})
    IN  IF batch = <<>> THEN [sent |-> 0, dropped |-> 0]
        ELSE IF numSuccess > 0 THEN [sent |-> Len(batch), dropped |-> 0]
        ELSE [sent |-> 0, dropped |-> Len(batch)]

\* The URLs Send posts to: alertmgrs.get(), none for an empty batch.
SendTargets(batch) == IF batch = <<>> THEN <<>> ELSE amCurrent

\* Mutant: the loop keeps a batch no replica accepted and sends it again.
AfterSend_Retry(batch, failed, cancelled) ==
    IF cancelled THEN [pc |-> "exit", batch |-> <<>>]
    ELSE IF failed THEN [pc |-> "send", batch |-> batch]
    ELSE [pc |-> "pop", batch |-> <<>>]

\* The rest of the loop's iteration once Send has returned: the batch is
\* gone whatever Send did with it; return if ctx is done, else Pop again.
AfterSend(batch, failed, cancelled) ==
    IF cancelled THEN [pc |-> "exit", batch |-> <<>>] ELSE [pc |-> "pop", batch |-> <<>>]

SenderSend ==
    /\ sender.pc = "send"
    /\ \E replies \in [1..Len(SendTargets(sender.batch)) -> BOOLEAN] :
          /\ sent' = sent + Send(sender.batch, replies).sent
          /\ dropped' = dropped + Send(sender.batch, replies).dropped
          /\ sender' = AfterSend(sender.batch, Send(sender.batch, replies).dropped > 0,
                                 senderCtxDone)
          /\ lastReplies' = [ok |-> \E i \in 1..Len(replies) : replies[i],
                              fail |-> \E i \in 1..Len(replies) : ~replies[i]]
    /\ sendLog' = Append(sendLog, Ids(sender.batch))
    /\ UNCHANGED <<queue, qDropped, nextId, evicted, popLog, senderCtxDone, amCurrent,
                   amErrors, amAddrs, amLast>>
    /\ UNCHANGED <<qvars, rvars, dvars, gvars, svars, xvars>>

\* The actor's interrupt function: cancel().
SenderCancel ==
    /\ ~senderCtxDone
    /\ senderCtxDone' = TRUE
    /\ UNCHANGED <<queue, qDropped, nextId, evicted, popLog, sendLog, lastReplies,
                   sender, sent, dropped, amCurrent, amErrors, amAddrs, amLast>>
    /\ UNCHANGED <<qvars, rvars, dvars, gvars, svars, xvars>>

AInitWith(addrs) ==
    /\ queue = <<>>
    /\ qDropped = 0
    /\ nextId = 1
    /\ evicted = {}
    /\ popLog = <<>>
    /\ sendLog = <<>>
    /\ lastReplies = [ok |-> FALSE, fail |-> FALSE]
    /\ sender = [pc |-> "pop", batch |-> <<>>]
    /\ senderCtxDone = FALSE
    /\ sent = 0
    /\ dropped = 0
    /\ amCurrent = <<>>
    /\ amErrors = 0
    /\ amAddrs = addrs
    /\ amLast = NoUpdate

\* newAlertmanagerSet(logger, alertmgrURLs, ...)
AInit == AInitWith(alertmgrURLs)

AMNext == AMRefresh

ANext ==
    \/ Notify
    \/ SenderPop
    \/ SenderSend
    \/ SenderCancel
    \/ AMRefresh

(***************************************************************************)
(* Rule files, Managers.Update and the reload loop (rule.go 403-473).      *)
(***************************************************************************)
RuleFileNames == <<"rules/a.yaml", "rules/b.yaml">>

\* What a rule file may hold: nothing (no such file), text that does not
\* parse, or one of two sets of groups.
Contents == {"absent", "invalid", "v1", "v2"}

\* The groups a parsable file declares.
GroupsOf(file, content) ==
    IF content = "v1"
    THEN {[file |-> file, name |-> "g1", strategy |-> "ABORT", rules |-> 1]}
    ELSE IF content = "v2"
    THEN {[file |-> file, name |-> "g1", strategy |-> "ABORT", rules |-> 2],
          [file |-> file, name |-> "g2", strategy |-> "WARN", rules |-> 1]}
    ELSE {}

\* The --rule-file patterns: one malformed, one matching every rule file.
ruleFiles == <<"[", "rules/*.yaml">>

\* filepath.Glob(pat): an error for the malformed pattern, else the
\* existing files that match, in lexical order.
Glob(pat) ==
    IF pat = "["
    THEN [err |-> TRUE, fs |-> <<>>]
    ELSE [err |-> FALSE,
          fs |-> SelectSeq(RuleFileNames,
                           LAMBDA f : disk[f] # "absent")]

\* The loop over the patterns (rule.go 418-428): a bad pattern is skipped.
RECURSIVE GlobAll(_)
GlobAll(pats) ==
    IF pats = <<>> THEN <<>>
    ELSE LET g == Glob(Head(pats))
         IN  IF g.err THEN GlobAll(Tail(pats)) ELSE g.fs \o GlobAll(Tail(pats))

\* Managers.Update(dataDir, evalInterval, files): on a parse error of any
\* file the managers are left as they are and the error is returned; else
\* each manager's groups are replaced by the groups declared for its strategy.
ManagersUpdate(mgrs, files) ==
    IF \E i \in 1..Len(files) : disk[files[i]] = "invalid"
    THEN [err |-> TRUE, mgrs |-> mgrs]
    ELSE [err |-> FALSE,
          mgrs |-> [s \in Strategies |->
                      {g \in UNION {GroupsOf(files[i], disk[files[i]]) : i \in 1..Len(files)} :
                          g.strategy = s}]]

\* rulesLoaded after Reset() and the loop over the managers' RuleGroups().
LoadedRules(mgrs) ==
    UNION {{[strategy |-> s, file |-> g.file, group |-> g.name, value |-> g.rules] :
               g \in mgrs[s]} : s \in Strategies}

\* Mutant: the failure branch lacks its continue and falls through.
ReloadGauges_NoContinue(u, t, old) ==
    [configSuccess |-> 1, configSuccessTime |-> t, rulesLoaded |-> LoadedRules(u.mgrs)]

\* The gauges after Update returned u at time t (rule.go 432-446).
ReloadGauges(u, t, old) ==
    IF u.err
    THEN [old EXCEPT !.configSuccess = 0]
    ELSE [configSuccess |-> 1, configSuccessTime |-> t, rulesLoaded |-> LoadedRules(u.mgrs)]

\* One run of the reload loop (rule.go 410-448): take the event, glob the
\* patterns, Update the managers and set the gauges.
ReloadRun ==
    /\ reload > 0
    /\ "reload" \notin returned
    /\ reload' = reload - 1
    /\ now' = now + 1
    /\ served' = ntriggers
    /\ LET u == ManagersUpdate(ruleMgrs, GlobAll(ruleFiles))
           g == ReloadGauges(u, now + 1,
                             [configSuccess |-> configSuccess,
                              configSuccessTime |-> configSuccessTime,
                              rulesLoaded |-> rulesLoaded])
       IN  /\ ruleMgrs' = u.mgrs
           /\ configSuccess' = g.configSuccess
           /\ configSuccessTime' = g.configSuccessTime
           /\ rulesLoaded' = g.rulesLoaded
           /\ reloadErr' = IF u.err THEN "failed" ELSE "ok"
    /\ UNCHANGED <<disk, ntriggers, post>>
    /\ UNCHANGED <<qvars, avars, dvars, gvars, svars, xvars>>

\* Mutant: every SIGHUP adds an event, whatever is buffered.
SighupSend_Queues(ch) == ch + 1

\* Mutant: the SIGHUP actor never sends.
SighupSend_Lost(ch) == ch

\* select { case reload <- struct{}{}: default: } on the channel of capacity 1.
SighupSend(ch) == IF ch < 1 THEN ch + 1 ELSE ch

\* SIGHUP is delivered to the SIGHUP actor (rule.go 456-469).
Sighup ==
    /\ "sighup" \notin returned
    /\ ntriggers < MaxTriggers
    /\ reload' = SighupSend(reload)
    /\ ntriggers' = ntriggers + 1
    /\ UNCHANGED <<disk, ruleMgrs, configSuccess, configSuccessTime, rulesLoaded, now,
                   reloadErr, served, post>>
    /\ UNCHANGED <<qvars, avars, dvars, gvars, svars, xvars>>

\* A POST /-/reload request arrives: its handler starts.
PostArrive ==
    /\ post = "idle"
    /\ ntriggers < MaxTriggers
    /\ post' = "sending"
    /\ UNCHANGED <<reload, disk, ruleMgrs, configSuccess, configSuccessTime, rulesLoaded,
                   now, reloadErr, ntriggers, served>>
    /\ UNCHANGED <<qvars, avars, dvars, gvars, svars, xvars>>

\* The handler (rule.go 520-522): reload <- struct{}{}, a blocking send, then return.
PostReload ==
    /\ post = "sending"
    /\ reload < 1
    /\ reload' = reload + 1
    /\ ntriggers' = ntriggers + 1
    /\ post' = "idle"
    /\ UNCHANGED <<disk, ruleMgrs, configSuccess, configSuccessTime, rulesLoaded, now,
                   reloadErr, served>>
    /\ UNCHANGED <<qvars, avars, dvars, gvars, svars, xvars>>

\* The operator edits, adds or removes a rule file.
EditRuleFile ==
    /\ \E i \in 1..Len(RuleFileNames), c \in Contents :
          disk' = [disk EXCEPT ![RuleFileNames[i]] = c]
    /\ UNCHANGED <<reload, ruleMgrs, configSuccess, configSuccessTime, rulesLoaded, now,
                   reloadErr, ntriggers, served, post>>
    /\ UNCHANGED <<qvars, avars, dvars, gvars, svars, xvars>>

RInit ==
    /\ reload = 1
    /\ disk = [f \in Range(RuleFileNames) |-> "absent"]
    /\ ruleMgrs = [s \in Strategies |-> {}]
    /\ configSuccess = 0
    /\ configSuccessTime = 0
    /\ rulesLoaded = {}
    /\ now = 0
    /\ reloadErr = "none"
    /\ ntriggers = 0
    /\ served = -1
    /\ post = "idle"

(***************************************************************************)
(* The run group (rule.go g.Add ... ; run.Group.Run): the actors in the    *)
(* order they are added, their shutdown callbacks, and Run, which waits    *)
(* for the first actor to return, invokes every callback in the order of   *)
(* addition and waits for all actors to return.                            *)
(***************************************************************************)
\* The actors in the order of their g.Add (the two managers are added in
\* the iteration order of a map; one order is modelled).
Actors ==
    <<"tsdb", "mgrABORT", "mgrWARN", "sender", "amRefresh", "fileSDRun", "fileSDUpdate",
      "reload", "sighup", "dns", "grpc", "http", "shipper">>

MgrActor == [s \in Strategies |-> IF s = "ABORT" THEN "mgrABORT" ELSE "mgrWARN"]

\* The actors whose callback closes a channel: close(done), close(fileSDUpdates),
\* close(cancel).  The others cancel a context, stop a server or close a listener.
ClosesChannel == {"tsdb", "fileSDUpdate", "reload", "sighup"}

\* The actors that may return on their own: s.Serve(l) and http.Serve(l, mux).
Servers == {"grpc", "http"}

\* Mutant: the closures of the loop share the variables of its last iteration.
ManagerSetup_SharedLoopVars ==
    [s \in Strategies |-> [QueryFunc |-> "WARN", Context |-> "WARN"]]

\* The loop over the strategies (rule.go 312-323): per manager, the
\* strategy its query function is built with and its context.
ManagerSetup == [s \in Strategies |-> [QueryFunc |-> s, Context |-> s]]

\* Mutant: no callback signals its actor.
Callback_NoSignal(a) ==
    /\ UNCHANGED <<sig, panicked, mgrCtxDone, mgrStopped>>

\* The shutdown callback of actor a.  Closing a closed channel panics; a
\* manager's callback cancels the manager's context and returns when Stop has.
Callback(a) ==
    /\ sig' = [sig EXCEPT ![a] = "closed"]
    /\ panicked' = (panicked \/ (a \in ClosesChannel /\ sig[a] = "closed"))
    /\ IF \E s \in Strategies : MgrActor[s] = a
       THEN LET s == CHOOSE t \in Strategies : MgrActor[t] = a
            IN  /\ mgrCtxDone' = mgrCtxDone \cup {ManagerSetup[s].Context}
                /\ mgrStopped' = mgrStopped \cup {s}
       ELSE UNCHANGED <<mgrCtxDone, mgrStopped>>

\* What lets the function of actor a return: a manager actor waits for its
\* context, every other actor for what its callback closes.
CanReturn(a) ==
    IF \E s \in Strategies : MgrActor[s] = a
    THEN \E s \in Strategies : MgrActor[s] = a /\ ManagerSetup[s].Context \in mgrCtxDone
    ELSE sig[a] = "closed"

\* A server's Serve returns an error on its own.
ServerFail ==
    /\ \E a \in Servers :
          /\ a \notin returned
          /\ returned' = returned \cup {a}
    /\ UNCHANGED <<sig, panicked, grp, db, mgrCtxDone, mgrStopped, issued, syncs>>
    /\ UNCHANGED <<qvars, avars, rvars, dvars, svars, xvars>>

\* Run has seen the first actor return.
GroupFirst ==
    /\ grp.pc = "run"
    /\ returned # {}
    /\ grp' = [pc |-> "interrupt", k |-> 1]
    /\ UNCHANGED <<sig, panicked, returned, db, mgrCtxDone, mgrStopped, issued, syncs>>
    /\ UNCHANGED <<qvars, avars, rvars, dvars, svars, xvars>>

\* Run invokes the next callback.
GroupInterrupt ==
    /\ grp.pc = "interrupt"
    /\ Callback(Actors[grp.k])
    /\ grp' = IF grp.k < Len(Actors) THEN [grp EXCEPT !.k = @ + 1]
              ELSE [pc |-> "wait", k |-> grp.k + 1]
    /\ UNCHANGED <<returned, db, issued, syncs>>
    /\ UNCHANGED <<qvars, avars, rvars, dvars, svars, xvars>>

\* Run has seen every actor return: it returns.
GroupDone ==
    /\ grp.pc = "wait"
    /\ returned = Range(Actors)
    /\ grp' = [grp EXCEPT !.pc = "done"]
    /\ UNCHANGED <<sig, panicked, returned, db, mgrCtxDone, mgrStopped, issued, syncs>>
    /\ UNCHANGED <<qvars, avars, rvars, dvars, svars, xvars>>

\* The function of an actor other than the TSDB actor returns.
Return(a) ==
    /\ a \notin returned
    /\ a # "tsdb"
    /\ CanReturn(a)
    /\ returned' = returned \cup {a}
    /\ UNCHANGED <<sig, panicked, grp, db, mgrCtxDone, mgrStopped, issued, syncs>>
    /\ UNCHANGED <<qvars, avars, rvars, dvars, svars, xvars>>

\* The TSDB actor (rule.go 258-260): <-done, then db.Close().
TSDBCloseBegin ==
    /\ "tsdb" \notin returned
    /\ sig["tsdb"] = "closed"
    /\ db = "open"
    /\ db' = "closing"
    /\ UNCHANGED <<sig, panicked, grp, returned, mgrCtxDone, mgrStopped, issued, syncs>>
    /\ UNCHANGED <<qvars, avars, rvars, dvars, svars, xvars>>

\* db.Close() returns and with it the TSDB actor.
TSDBReturn ==
    /\ db = "closing"
    /\ db' = "closed"
    /\ returned' = returned \cup {"tsdb"}
    /\ UNCHANGED <<sig, panicked, grp, mgrCtxDone, mgrStopped, issued, syncs>>
    /\ UNCHANGED <<qvars, avars, rvars, dvars, svars, xvars>>

\* A running manager evaluates a rule: its query function sends a query.
MgrQuery ==
    /\ \E s \in Strategies :
          /\ s \notin mgrStopped
          /\ issued' = issued \cup {[mgr |-> s, strategy |-> ManagerSetup[s].QueryFunc]}
    /\ UNCHANGED <<sig, panicked, grp, returned, db, mgrCtxDone, mgrStopped, syncs>>
    /\ UNCHANGED <<qvars, avars, rvars, dvars, svars, xvars>>

\* A shutdown callback is invoked, whether or not it was invoked before.
InvokeCallback ==
    /\ ~panicked
    /\ \E a \in Range(Actors) : Callback(a)
    /\ UNCHANGED <<grp, returned, db, issued, syncs>>
    /\ UNCHANGED <<qvars, avars, rvars, dvars, svars, xvars>>

\* Run invokes the callback of the reload actor: close(cancel) (rule.go 449-451).
ReloadCancel ==
    /\ sig["reload"] = "open"
    /\ Callback("reload")
    /\ UNCHANGED <<grp, returned, db, issued, syncs>>
    /\ UNCHANGED <<qvars, avars, rvars, dvars, svars, xvars>>

\* One tick of the shipper loop (rule.go 588-593): Sync, whose error is
\* logged.
ShipperSync ==
    /\ "shipper" \notin returned
    /\ Len(syncs) < MaxSyncs
    /\ \E err \in BOOLEAN :
          /\ syncs' = Append(syncs, IF err THEN "err" ELSE "ok")
          /\ returned' = RepeatAfter("shipper", ShipTick(err))
    /\ UNCHANGED <<sig, panicked, grp, db, mgrCtxDone, mgrStopped, issued>>
    /\ UNCHANGED <<qvars, avars, rvars, dvars, svars, xvars>>

\* Run invokes the callback of one of the two loops: cancel().
LoopCancel ==
    /\ \E a \in {"amRefresh", "shipper"} :
          /\ sig[a] = "open"
          /\ Callback(a)
    /\ UNCHANGED <<grp, returned, db, issued, syncs>>
    /\ UNCHANGED <<qvars, avars, rvars, dvars, svars, xvars>>

LNext ==
    \/ AMRefresh
    \/ ShipperSync
    \/ LoopCancel
    \/ Return("amRefresh")
    \/ Return("shipper")

\* The run group and the TSDB, db being "none" before tsdb.Open.
GInitWith(d) ==
    /\ sig = [a \in Range(Actors) |-> "open"]
    /\ panicked = FALSE
    /\ grp = [pc |-> "run", k |-> 0]
    /\ returned = {}
    /\ db = d
    /\ mgrCtxDone = {}
    /\ mgrStopped = {}
    /\ issued = {}
    /\ syncs = <<>>

GInit == GInitWith("open")

GNext ==
    \/ ServerFail
    \/ GroupFirst
    \/ GroupInterrupt
    \/ GroupDone
    \/ \E a \in Range(Actors) : Return(a)
    \/ TSDBCloseBegin
    \/ TSDBReturn
    \/ MgrQuery

RNext ==
    \/ ReloadRun
    \/ Sighup
    \/ PostArrive
    \/ PostReload
    \/ EditRuleFile
    \/ ReloadCancel
    \/ Return("reload")

(***************************************************************************)
(* Startup (registerRule's closure and the head of runRule): the checks    *)
(* of the --query configuration, tsdb.Open, then the actors are added.     *)
(***************************************************************************)
ErrDuplicated == "Address is duplicated for --query flag."
ErrNoQuery == "No --query parameter was given."
ErrEmptyAddr == "static querier address cannot be empty"
ErrOpenTSDB == "open TSDB"

\* The --query values: the empty string and two addresses.
FlagAddrs == {<<>>, AddrA, AddrB}

\* The command lines: up to MaxQueries --query flags, with or without
\* --query.sd-files.
FlagSets == [queries : SeqsUpTo(FlagAddrs, MaxQueries), files : 0..1]

\* Mutant: the loop over queryAddrs accepts the empty address.
IsEmptyAddr_Never(addr) == FALSE

\* addr == "" (rule.go 247)
IsEmptyAddr(addr) == addr = <<>>

\* The loop over *queries (rule.go 125-132), one iteration.
BootDupCheck ==
    /\ boot.pc = "dupCheck"
    /\ IF boot.i > Len(flags.queries)
       THEN boot' = [boot EXCEPT !.pc = "noQuery"]
       ELSE IF flags.queries[boot.i] \in boot.lookupQueries
       THEN boot' = [boot EXCEPT !.pc = "failed", !.err = ErrDuplicated]
       ELSE boot' = [boot EXCEPT !.i = @ + 1,
                                 !.lookupQueries = @ \cup {flags.queries[boot.i]}]
    /\ UNCHANGED <<flags, lset, head, notifyLog>>
    /\ UNCHANGED <<qvars, avars, rvars, dvars, gvars, xvars>>

\* fileSD == nil && len(*queries) == 0 (rule.go 134-145), then runRule.
BootNoQuery ==
    /\ boot.pc = "noQuery"
    /\ IF flags.files = 0 /\ Len(flags.queries) = 0
       THEN boot' = [boot EXCEPT !.pc = "failed", !.err = ErrNoQuery]
       ELSE boot' = [boot EXCEPT !.pc = "emptyCheck", !.i = 1]
    /\ UNCHANGED <<flags, lset, head, notifyLog>>
    /\ UNCHANGED <<qvars, avars, rvars, dvars, gvars, xvars>>

\* The loop over queryAddrs (rule.go 246-250), one iteration.
BootEmptyCheck ==
    /\ boot.pc = "emptyCheck"
    /\ IF boot.i > Len(flags.queries)
       THEN boot' = [boot EXCEPT !.pc = "open"]
       ELSE IF IsEmptyAddr(flags.queries[boot.i])
       THEN boot' = [boot EXCEPT !.pc = "failed", !.err = ErrEmptyAddr]
       ELSE boot' = [boot EXCEPT !.i = @ + 1]
    /\ UNCHANGED <<flags, lset, head, notifyLog>>
    /\ UNCHANGED <<qvars, avars, rvars, dvars, gvars, xvars>>

\* tsdb.Open (rule.go 252-255) succeeds or fails.
BootOpen ==
    /\ boot.pc = "open"
    /\ \/ /\ boot' = [boot EXCEPT !.pc = "add"]
          /\ db' = "open"
       \/ /\ boot' = [boot EXCEPT !.pc = "failed", !.err = ErrOpenTSDB]
          /\ UNCHANGED db
    /\ UNCHANGED <<sig, panicked, grp, returned, mgrCtxDone, mgrStopped, issued, syncs>>
    /\ UNCHANGED <<flags, lset, head, notifyLog>>
    /\ UNCHANGED <<qvars, avars, rvars, dvars, xvars>>

\* The next g.Add; after the last one runRule returns nil.
BootAdd ==
    /\ boot.pc = "add"
    /\ boot' = [boot EXCEPT !.added = @ + 1,
                            !.pc = IF boot.added + 1 = Len(Actors) THEN "started" ELSE "add"]
    /\ UNCHANGED <<flags, lset, head, notifyLog>>
    /\ UNCHANGED <<qvars, avars, rvars, dvars, gvars, xvars>>

BootStart == [pc |-> "dupCheck", i |-> 1, lookupQueries |-> {}, err |-> ErrNil, added |-> 0]

\* The state of a ruler that has started with the static address of
\* queryAddrs and file SD.
Booted == [pc |-> "started", i |-> 2, lookupQueries |-> {AddrA}, err |-> ErrNil,
           added |-> Len(Actors)]

BNext ==
    \/ BootDupCheck
    \/ BootNoQuery
    \/ BootEmptyCheck
    \/ BootOpen
    \/ BootAdd

(***************************************************************************)
(* Recording rules: the labels a rule manager appends through the          *)
(* Appendable of its options.                                              *)
(***************************************************************************)
\* Label sets are functions from label names to values.
MergeLabels(base, over) ==
    [n \in DOMAIN base \cup DOMAIN over |-> IF n \in DOMAIN over THEN over[n] ELSE base[n]]

\* The external label sets --label may give.
ExtLabelSets == {[replica |-> "A"], [replica |-> "A", job |-> "ext"]}

\* The extra labels of the recording rules.
RuleLabelSets == {[name |-> "job:up:sum"], [name |-> "job:up:sum", job |-> "rule"]}

\* The label sets of the series the queries return.
QueryLabelSets ==
    {[job |-> "x", instance |-> "i1"],
     [job |-> "x", instance |-> "i2"],
     [job |-> "y", instance |-> "i1"],
     [instance |-> "i1", replica |-> "q"]}

\* The labels of a recording rule's sample: the rule's name and labels over
\* those of the query's series.
RecordedLabels(queryLabels, ruleLabels) == MergeLabels(queryLabels, ruleLabels)

\* What the Appendable of the managers' options (rule.go 302-310) stores:
\* tsdb.Adapter(db, 0) is built from db alone and the options carry no
\* external labels.
AppendableAdd(l) == l

\* A recording rule is evaluated and its sample appended.
RuleAppend ==
    /\ Cardinality(head) < MaxSeries
    /\ \E q \in QueryLabelSets, rl \in RuleLabelSets :
          head' = head \cup {AppendableAdd(RecordedLabels(q, rl))}
    /\ UNCHANGED <<flags, boot, lset, notifyLog>>
    /\ UNCHANGED <<qvars, avars, rvars, dvars, gvars, xvars>>

SInitWith(f, b, l, on) ==
    /\ flags = f
    /\ boot = b
    /\ lset = l
    /\ head = {}
    /\ notifyLog = [on |-> on, alerts |-> <<>>, res |-> <<>>]

SInit == SInitWith([queries |-> queryAddrs, files |-> 1], Booted, [replica |-> "A"], FALSE)

(***************************************************************************)
(* objtesting.ForeachStore: the test against the in-memory bucket, then    *)
(* the optional backends.                                                  *)
(***************************************************************************)
\* The optional backends in the order ForeachStore visits them.
Backends == <<"gcs", "s3", "azure", "swift", "cos">>

\* The variable os.LookupEnv is asked for, per backend.
SkipVar ==
    [gcs |-> "THANOS_SKIP_GCS_TESTS", s3 |-> "THANOS_SKIP_S3_AWS_TESTS",
     azure |-> "THANOS_SKIP_AZURE_TESTS", swift |-> "THANOS_SKIP_SWIFT_TESTS",
     cos |-> "THANOS_SKIP_TENCENT_COS_TESTS"]

\* The name t.Run is given, per backend.
TestName ==
    [gcs |-> "gcs", s3 |-> "aws s3", azure |-> "azure", swift |-> "swift",
     cos |-> "Tencent cos"]

\* A variable is unset, set to the empty string, or set to "false".
EnvValues == {"unset", "", "false"}

Environments == [{SkipVar[Backends[i]] : i \in 1..Len(Backends)} -> EnvValues]

\* _, ok := os.LookupEnv(name)
LookupEnv(env, name) == env[name] # "unset"

FSStart(env) ==
    [env |-> env, pc |-> "run", k |-> 0, ran |-> <<>>, passed |-> {}, contacted |-> <<>>]

\* t.Run("inmem", ...): the test passes or fails; on failure ForeachStore returns.
FSInmem ==
    /\ fs.pc = "run"
    /\ fs.k = 0
    /\ \E ok \in BOOLEAN :
          fs' = [fs EXCEPT !.ran = Append(@, "inmem"),
                           !.passed = IF ok THEN @ \cup {"inmem"} ELSE @,
                           !.k = 1,
                           !.pc = IF ok THEN "run" ELSE "returned"]
    /\ UNCHANGED <<upd, sd, rcv>>
    /\ UNCHANGED <<qvars, avars, rvars, dvars, gvars, svars>>

\* The block of one optional backend: skipped when its variable is present;
\* else NewTestBucket, testutil.Ok on its error (which ends the test when
\* the error is not nil), t.Run, closeFn, and return when the test failed.
FSBackend ==
    /\ fs.pc = "run"
    /\ fs.k \in 1..Len(Backends)
    /\ LET b == Backends[fs.k]
       IN  IF LookupEnv(fs.env, SkipVar[b])
           THEN fs' = [fs EXCEPT !.k = @ + 1]
           ELSE \E err \in BOOLEAN, ok \in BOOLEAN :
                   IF err
                   THEN fs' = [fs EXCEPT !.contacted = Append(@, b), !.pc = "returned"]
                   ELSE fs' = [fs EXCEPT !.contacted = Append(@, b),
                                         !.ran = Append(@, TestName[b]),
                                         !.passed = IF ok THEN @ \cup {TestName[b]} ELSE @,
                                         !.k = @ + 1,
                                         !.pc = IF ok THEN "run" ELSE "returned"]
    /\ UNCHANGED <<upd, sd, rcv>>
    /\ UNCHANGED <<qvars, avars, rvars, dvars, gvars, svars>>

\* The end of ForeachStore.
FSReturn ==
    /\ fs.pc = "run"
    /\ fs.k = Len(Backends) + 1
    /\ fs' = [fs EXCEPT !.pc = "returned"]
    /\ UNCHANGED <<upd, sd, rcv>>
    /\ UNCHANGED <<qvars, avars, rvars, dvars, gvars, svars>>

FSNext ==
    \/ FSInmem
    \/ FSBackend
    \/ FSReturn

FSInit == fs = FSStart([v \in {SkipVar[Backends[i]] : i \in 1..Len(Backends)} |-> "unset"])

(***************************************************************************)
(* alertmanagerSet.update in steps, one per configured address, with get   *)
(* called while it runs.                                                   *)
(***************************************************************************)
\* Mutant: an error return stores what the loop has built so far.
UpdateErrCurrent_StoresPartial(current, result) == result

\* s.current when update returns an error (rule.go 641-643, 657-659): the
\* returns precede the assignment at 674, so it is what it was.
UpdateErrCurrent(current, result) == current

\* update is called: var result []*url.URL.
UpdBegin ==
    /\ upd.pc = "idle"
    /\ upd' = [upd EXCEPT !.pc = "loop", !.i = 1, !.result = <<>>, !.before = amCurrent]
    /\ UNCHANGED <<fs, sd, rcv>>
    /\ UNCHANGED <<qvars, avars, rvars, dvars, gvars, svars>>

\* One iteration of the loop over s.addrs (rule.go 627-669).
UpdStep ==
    /\ upd.pc = "loop"
    /\ upd.i <= Len(amAddrs)
    /\ LET e == UpdateEntry(amAddrs[upd.i])
           fail == /\ upd' = [upd EXCEPT !.pc = "idle", !.err = TRUE]
                   /\ amCurrent' = UpdateErrCurrent(amCurrent, upd.result)
           next(resolvedDomain) ==
                   /\ upd' = [upd EXCEPT !.i = @ + 1,
                                         !.result = @ \o EntryURLs(e.u, resolvedDomain)]
                   /\ UNCHANGED amCurrent
       IN  IF ~e.u.ok THEN fail
           ELSE IF e.qtype # <<>>
           THEN \E r \in ResolverResolve(e.host, e.qtype) :
                   IF r.err THEN fail ELSE next(r.addrs)
           ELSE next(<<e.host>>)
    /\ UNCHANGED <<queue, qDropped, nextId, evicted, popLog, sendLog, lastReplies,
                   sender, senderCtxDone, sent, dropped, amErrors, amAddrs, amLast>>
    /\ UNCHANGED <<fs, sd, rcv>>
    /\ UNCHANGED <<qvars, rvars, dvars, gvars, svars>>

\* The loop is over: s.mtx.Lock(); s.current = result; s.mtx.Unlock(); return nil.
UpdCommit ==
    /\ upd.pc = "loop"
    /\ upd.i > Len(amAddrs)
    /\ amCurrent' = upd.result
    /\ upd' = [upd EXCEPT !.pc = "idle", !.err = FALSE]
    /\ UNCHANGED <<queue, qDropped, nextId, evicted, popLog, sendLog, lastReplies,
                   sender, senderCtxDone, sent, dropped, amErrors, amAddrs, amLast>>
    /\ UNCHANGED <<fs, sd, rcv>>
    /\ UNCHANGED <<qvars, rvars, dvars, gvars, svars>>

\* get(), from another goroutine: s.current under the mutex.
AMGet ==
    /\ upd' = [upd EXCEPT !.got = amCurrent]
    /\ UNCHANGED <<fs, sd, rcv>>
    /\ UNCHANGED <<qvars, avars, rvars, dvars, gvars, svars>>

UNext ==
    \/ UpdBegin
    \/ UpdStep
    \/ UpdCommit
    \/ AMGet

\* No update is running; as history, the list current held when the last
\* update began, whether that update failed, and the last return of get().
UInit == upd = [pc |-> "idle", i |-> 1, result |-> <<>>, before |-> <<>>, err |-> FALSE,
                got |-> <<>>]

(***************************************************************************)
(* The two file-SD actors (rule.go 369-401) over their unbuffered channel, *)
(* and their shutdown callbacks.                                           *)
(***************************************************************************)
\* Mutant: a nil update empties the view.
FileSDReceive_NilClears(cache, update) == update.addrs

\* The body of case update := <-fileSDUpdates (rule.go 385-390): nil is
\* skipped, any other update is handed to fileSDCache.Update, which
\* replaces the view.
FileSDReceive(cache, update) == IF update.nil THEN cache ELSE update.addrs

\* The discoverer has read the files and goes to send what it found.
DiscRefresh ==
    /\ sd.disc = "watch"
    /\ \E update \in FileSDUpdates : sd' = [sd EXCEPT !.disc = "send", !.msg = update]
    /\ UNCHANGED <<fs, upd, rcv>>
    /\ UNCHANGED <<qvars, avars, rvars, dvars, gvars, svars>>

\* The send meets the receive of the update actor's select.
DiscSend ==
    /\ sd.disc = "send"
    /\ ~sd.closed
    /\ sd.cons = "select"
    /\ fileSDCache' = FileSDReceive(fileSDCache, sd.msg)
    /\ sd' = [sd EXCEPT !.disc = "watch", !.last = sd.msg]
    /\ UNCHANGED <<qctx, round>>
    /\ UNCHANGED <<fs, upd, rcv>>
    /\ UNCHANGED <<qvars, avars, rvars, gvars, svars>>

\* The discoverer's select takes the send although fileSDUpdates is
\* closed: send on closed channel, the process panics.
DiscSendOnClosed ==
    /\ sd.disc = "send"
    /\ sd.closed
    /\ sd' = [sd EXCEPT !.disc = "panicked"]
    /\ UNCHANGED <<fs, upd, rcv>>
    /\ UNCHANGED <<qvars, avars, rvars, dvars, gvars, svars>>

\* The discoverer sees ctxRun done: fileSD.Run returns.
DiscReturn ==
    /\ sd.disc \in {"watch", "send"}
    /\ sd.ctxRun
    /\ sd' = [sd EXCEPT !.disc = "returned"]
    /\ UNCHANGED <<fs, upd, rcv>>
    /\ UNCHANGED <<qvars, avars, rvars, dvars, gvars, svars>>

\* The run group invokes the callback of the Run actor: cancelRun().
SDInterruptRun ==
    /\ sd.disc # "panicked"
    /\ sd.intr = 0
    /\ sd' = [sd EXCEPT !.intr = 1, !.ctxRun = TRUE]
    /\ UNCHANGED <<fs, upd, rcv>>
    /\ UNCHANGED <<qvars, avars, rvars, dvars, gvars, svars>>

\* Then that of the update actor: cancelUpdate(); close(fileSDUpdates).
SDInterruptUpdate ==
    /\ sd.disc # "panicked"
    /\ sd.intr = 1
    /\ sd' = [sd EXCEPT !.intr = 2, !.ctxUpdate = TRUE, !.closed = TRUE]
    /\ UNCHANGED <<fs, upd, rcv>>
    /\ UNCHANGED <<qvars, avars, rvars, dvars, gvars, svars>>

\* The update actor's select takes the receive on the closed channel: the
\* value is nil and the loop continues.
ConsRecvClosed ==
    /\ sd.disc # "panicked"
    /\ sd.cons = "select"
    /\ sd.closed
    /\ fileSDCache' = FileSDReceive(fileSDCache, [nil |-> TRUE, addrs |-> <<>>])
    /\ sd' = [sd EXCEPT !.closedNils = TRUE]
    /\ UNCHANGED <<qctx, round>>
    /\ UNCHANGED <<fs, upd, rcv>>
    /\ UNCHANGED <<qvars, avars, rvars, gvars, svars>>

\* The update actor's select takes <-ctxUpdate.Done(): return nil.
ConsReturn ==
    /\ sd.disc # "panicked"
    /\ sd.cons = "select"
    /\ sd.ctxUpdate
    /\ sd' = [sd EXCEPT !.cons = "returned"]
    /\ UNCHANGED <<fs, upd, rcv>>
    /\ UNCHANGED <<qvars, avars, rvars, dvars, gvars, svars>>

FNext ==
    \/ DiscRefresh
    \/ DiscSend
    \/ DiscSendOnClosed
    \/ DiscReturn
    \/ SDInterruptRun
    \/ SDInterruptUpdate
    \/ ConsRecvClosed
    \/ ConsReturn

\* Both actors run, nothing is cancelled or closed; as history, the last
\* update received and whether a nil was received from the closed channel.
SDInit == sd = [disc |-> "watch", msg |-> [nil |-> TRUE, addrs |-> <<>>], cons |-> "select",
                ctxRun |-> FALSE, ctxUpdate |-> FALSE, closed |-> FALSE, intr |-> 0,
                last |-> [nil |-> TRUE, addrs |-> <<>>], closedNils |-> FALSE]

(***************************************************************************)
(* runReceive: the TSDB actor, the hashring producer and consumer, the     *)
(* gRPC actor and the web handler, under the run group.                    *)
(***************************************************************************)
\* The actors in the order of their g.Add.
RActors == <<"tsdb", "prod", "cons", "grpc", "web">>

\* Hashrings are numbered from 1 in the order they are produced; 0 is nil.
NilHashring == 0

\* Mutant: the second select installs the ring it received.
SecondHashring_Installs(h) == h

\* What the second select hands to webHandler.Hashring (rule.go 1010-1012).
SecondHashring(h) == NilHashring

\* tsdb.Open returns: the database, or an error, on which the actor closes
\* dbOpen and returns.
RTsdbOpen ==
    /\ ~rcv.panicked
    /\ rcv.tsdb = "opening"
    /\ \/ rcv' = [rcv EXCEPT !.tsdb = "opened", !.db = "open"]
       \/ rcv' = [rcv EXCEPT !.tsdb = "returned", !.dbOpen = TRUE,
                             !.returned = @ \cup {"tsdb"}]
    /\ UNCHANGED <<fs, upd, sd>>
    /\ UNCHANGED <<qvars, avars, rvars, dvars, gvars, svars>>

\* localStorage.Set(db, startTimeMargin); webHandler.StorageReady().
RTsdbSet ==
    /\ ~rcv.panicked
    /\ rcv.tsdb = "opened"
    /\ rcv' = [rcv EXCEPT !.tsdb = "ready", !.stor = "db"]
    /\ UNCHANGED <<fs, upd, sd>>
    /\ UNCHANGED <<qvars, avars, rvars, dvars, gvars, svars>>

\* close(dbOpen), then the actor waits for cancel.
RTsdbCloseDbOpen ==
    /\ ~rcv.panicked
    /\ rcv.tsdb = "ready"
    /\ rcv' = [rcv EXCEPT !.tsdb = "wait", !.dbOpen = TRUE]
    /\ UNCHANGED <<fs, upd, sd>>
    /\ UNCHANGED <<qvars, avars, rvars, dvars, gvars, svars>>

\* <-cancel; return nil.
RTsdbReturn ==
    /\ ~rcv.panicked
    /\ rcv.tsdb = "wait"
    /\ rcv.tcancel
    /\ rcv' = [rcv EXCEPT !.tsdb = "returned", !.returned = @ \cup {"tsdb"}]
    /\ UNCHANGED <<fs, upd, sd>>
    /\ UNCHANGED <<qvars, avars, rvars, dvars, gvars, svars>>

\* The config watcher has a new hashring; the producer goes to send it.
RProdWatch ==
    /\ ~rcv.panicked
    /\ rcv.cw
    /\ rcv.prod = "watch"
    /\ rcv.nsent < MaxHashrings
    /\ rcv' = [rcv EXCEPT !.prod = "send"]
    /\ UNCHANGED <<fs, upd, sd>>
    /\ UNCHANGED <<qvars, avars, rvars, dvars, gvars, svars>>

\* The producer's send meets a receive of the consumer: the first select
\* gives the ring to the handler, the second clears the handler's ring.
RProdSend ==
    /\ ~rcv.panicked
    /\ rcv.prod = "send"
    /\ ~rcv.updClosed
    /\ rcv.cons \in {"first", "second"}
    /\ LET h == rcv.nsent + 1
           v == IF rcv.cons = "first" THEN h ELSE SecondHashring(h)
       IN  rcv' = [rcv EXCEPT !.prod = IF rcv.cw THEN "watch" ELSE "wait",
                              !.nsent = h,
                              !.cons = IF rcv.cons = "first" THEN "second" ELSE "third",
                              !.recvd = Append(@, h),
                              !.given = Append(@, v),
                              !.hashring = v]
    /\ UNCHANGED <<fs, upd, sd>>
    /\ UNCHANGED <<qvars, avars, rvars, dvars, gvars, svars>>

\* The producer sends on updates after it was closed: with the single-node
\* ring a plain send, with the config watcher the send case of a select.
RProdSendOnClosed ==
    /\ ~rcv.panicked
    /\ rcv.prod = "send"
    /\ rcv.updClosed
    /\ rcv' = [rcv EXCEPT !.prod = "panicked", !.panicked = TRUE]
    /\ UNCHANGED <<fs, upd, sd>>
    /\ UNCHANGED <<qvars, avars, rvars, dvars, gvars, svars>>

\* The producer returns: the single-node one from <-cancel, the config
\* watcher's from ctx.Done().
RProdReturn ==
    /\ ~rcv.panicked
    /\ rcv.pcancel
    /\ IF rcv.cw THEN rcv.prod \in {"watch", "send"} ELSE rcv.prod = "wait"
    /\ rcv' = [rcv EXCEPT !.prod = "returned", !.returned = @ \cup {"prod"}]
    /\ UNCHANGED <<fs, upd, sd>>
    /\ UNCHANGED <<qvars, avars, rvars, dvars, gvars, svars>>

\* A select of the consumer receives from the closed channel: the zero
\* value, handed to webHandler.Hashring in the first select as nil.
RConsRecvClosed ==
    /\ ~rcv.panicked
    /\ rcv.cons \in {"first", "second"}
    /\ rcv.updClosed
    /\ rcv' = [rcv EXCEPT !.cons = IF rcv.cons = "first" THEN "second" ELSE "third",
                          !.recvd = Append(@, NilHashring),
                          !.given = Append(@, NilHashring),
                          !.hashring = NilHashring]
    /\ UNCHANGED <<fs, upd, sd>>
    /\ UNCHANGED <<qvars, avars, rvars, dvars, gvars, svars>>

\* case <-cancel: return nil, in either select or at the final <-cancel.
RConsReturn ==
    /\ ~rcv.panicked
    /\ rcv.cons \in {"first", "second", "third"}
    /\ rcv.ccancel
    /\ rcv' = [rcv EXCEPT !.cons = "returned", !.returned = @ \cup {"cons"}]
    /\ UNCHANGED <<fs, upd, sd>>
    /\ UNCHANGED <<qvars, avars, rvars, dvars, gvars, svars>>

\* <-dbOpen
RGrpcDbOpen ==
    /\ ~rcv.panicked
    /\ rcv.grpc = "waitDbOpen"
    /\ rcv.dbOpen
    /\ rcv' = [rcv EXCEPT !.grpc = "listen"]
    /\ UNCHANGED <<fs, upd, sd>>
    /\ UNCHANGED <<qvars, avars, rvars, dvars, gvars, svars>>

\* net.Listen binds, or fails and the actor returns.
RGrpcListen ==
    /\ ~rcv.panicked
    /\ rcv.grpc = "listen"
    /\ \/ rcv' = [rcv EXCEPT !.grpc = "build"]
       \/ rcv' = [rcv EXCEPT !.grpc = "returned", !.returned = @ \cup {"grpc"}]
    /\ UNCHANGED <<fs, upd, sd>>
    /\ UNCHANGED <<qvars, avars, rvars, dvars, gvars, svars>>

\* db := localStorage.Get(); store.NewTSDBStore(..., db, ...); s = grpc.NewServer;
\* s.Serve(l).
RGrpcBuild ==
    /\ ~rcv.panicked
    /\ rcv.grpc = "build"
    /\ rcv' = [rcv EXCEPT !.grpc = "serving", !.s = TRUE, !.builtOver = rcv.stor]
    /\ UNCHANGED <<fs, upd, sd>>
    /\ UNCHANGED <<qvars, avars, rvars, dvars, gvars, svars>>

\* s.Serve(l) returns because s.Stop() was called.
RGrpcServeReturn ==
    /\ ~rcv.panicked
    /\ rcv.grpc = "serving"
    /\ rcv.stopped
    /\ rcv' = [rcv EXCEPT !.grpc = "returned", !.returned = @ \cup {"grpc"}]
    /\ UNCHANGED <<fs, upd, sd>>
    /\ UNCHANGED <<qvars, avars, rvars, dvars, gvars, svars>>

\* s.Serve(l) fails on its own.
RGrpcServeFail ==
    /\ ~rcv.panicked
    /\ rcv.grpc = "serving"
    /\ ~rcv.stopped
    /\ rcv' = [rcv EXCEPT !.grpc = "returned", !.returned = @ \cup {"grpc"}]
    /\ UNCHANGED <<fs, upd, sd>>
    /\ UNCHANGED <<qvars, avars, rvars, dvars, gvars, svars>>

\* webHandler.Run() returns because webHandler.Close() was called.
RWebReturn ==
    /\ ~rcv.panicked
    /\ rcv.web = "run"
    /\ rcv.webClosed
    /\ rcv' = [rcv EXCEPT !.web = "returned", !.returned = @ \cup {"web"}]
    /\ UNCHANGED <<fs, upd, sd>>
    /\ UNCHANGED <<qvars, avars, rvars, dvars, gvars, svars>>

\* webHandler.Run() fails on its own.
RWebFail ==
    /\ ~rcv.panicked
    /\ rcv.web = "run"
    /\ ~rcv.webClosed
    /\ rcv' = [rcv EXCEPT !.web = "returned", !.returned = @ \cup {"web"}]
    /\ UNCHANGED <<fs, upd, sd>>
    /\ UNCHANGED <<qvars, avars, rvars, dvars, gvars, svars>>

\* The callback of actor a.  The TSDB's closes the storage, which closes
\* the database it holds, if any, then closes cancel; the gRPC actor's
\* reads s without synchronisation, so it may see nil after s was set.
RCallback(a, seen) ==
    IF a = "tsdb"
    THEN [rcv EXCEPT !.db = IF rcv.stor = "db" /\ rcv.db = "open" THEN "closed" ELSE @,
                     !.tcancel = TRUE]
    ELSE IF a = "prod" THEN [rcv EXCEPT !.pcancel = TRUE, !.updClosed = TRUE]
    ELSE IF a = "cons" THEN [rcv EXCEPT !.ccancel = TRUE]
    ELSE IF a = "grpc" THEN [rcv EXCEPT !.stopped = @ \/ seen]
    ELSE [rcv EXCEPT !.webClosed = TRUE]

\* Run has seen the first actor return.
RGroupFirst ==
    /\ ~rcv.panicked
    /\ rcv.grp = "run"
    /\ rcv.returned # {}
    /\ rcv' = [rcv EXCEPT !.grp = "interrupt", !.k = 1]
    /\ UNCHANGED <<fs, upd, sd>>
    /\ UNCHANGED <<qvars, avars, rvars, dvars, gvars, svars>>

\* Run invokes the next callback.
RGroupInterrupt ==
    /\ ~rcv.panicked
    /\ rcv.grp = "interrupt"
    /\ \E seen \in (IF rcv.s THEN BOOLEAN ELSE {FALSE}) :
          LET r == RCallback(RActors[rcv.k], seen)
          IN  rcv' = [r EXCEPT !.k = @ + 1,
                               !.grp = IF rcv.k = Len(RActors) THEN "wait" ELSE "interrupt"]
    /\ UNCHANGED <<fs, upd, sd>>
    /\ UNCHANGED <<qvars, avars, rvars, dvars, gvars, svars>>

\* Run has seen every actor return.
RGroupDone ==
    /\ ~rcv.panicked
    /\ rcv.grp = "wait"
    /\ rcv.returned = Range(RActors)
    /\ rcv' = [rcv EXCEPT !.grp = "done"]
    /\ UNCHANGED <<fs, upd, sd>>
    /\ UNCHANGED <<qvars, avars, rvars, dvars, gvars, svars>>

\* The steps a scheduled goroutine takes by itself.
RcvProgress ==
    \/ RTsdbOpen
    \/ RTsdbSet
    \/ RTsdbCloseDbOpen
    \/ RTsdbReturn
    \/ RProdSend
    \/ RProdSendOnClosed
    \/ RProdReturn
    \/ RConsRecvClosed
    \/ RConsReturn
    \/ RGrpcDbOpen
    \/ RGrpcListen
    \/ RGrpcBuild
    \/ RGrpcServeReturn
    \/ RWebReturn
    \/ RGroupFirst
    \/ RGroupInterrupt
    \/ RGroupDone

\* Those, and what the outside brings: a new hashring configuration, a
\* server failing.
RcvNext ==
    \/ RcvProgress
    \/ RProdWatch
    \/ RGrpcServeFail
    \/ RWebFail

\* runReceive has added its actors, with a config watcher (cw) or without;
\* as history, what the consumer received and what the handler was given.
RcvStart(cw) ==
    [cw |-> cw, tsdb |-> "opening", db |-> "none", stor |-> "empty", dbOpen |-> FALSE,
     tcancel |-> FALSE, prod |-> IF cw THEN "watch" ELSE "send", nsent |-> 0,
     pcancel |-> FALSE, updClosed |-> FALSE, cons |-> "first", ccancel |-> FALSE,
     hashring |-> NilHashring, recvd |-> <<>>, given |-> <<>>, grpc |-> "waitDbOpen",
     s |-> FALSE, stopped |-> FALSE, builtOver |-> "none", web |-> "run",
     webClosed |-> FALSE, grp |-> "run", k |-> 0, returned |-> {}, panicked |-> FALSE]

RcvInit == rcv = RcvStart(FALSE)

XInit == FSInit /\ UInit /\ SDInit /\ RcvInit

(***************************************************************************)
(* Specifications.                                                         *)
(***************************************************************************)
Init == QInit /\ AInit /\ RInit /\ DInit /\ GInit /\ SInit /\ XInit

SpecQuery == Init /\ [][QNext]_vars

SpecCancel == Init /\ [][CNext]_vars

SpecDiscovery == Init /\ [][DNext]_vars

SpecAlert == Init /\ [][ANext]_vars

InitAMSet ==
    QInit /\ (\E addrs \in AMConfigs : AInitWith(addrs)) /\ RInit /\ DInit /\ GInit /\ SInit /\ XInit

SpecAMSet == InitAMSet /\ [][AMNext]_vars

SpecReload == Init /\ [][RNext]_vars

\* The reload and signal actors and the handler, the rule files staying as
\* they are.
TNext ==
    \/ ReloadRun
    \/ Sighup
    \/ PostArrive
    \/ PostReload
    \/ ReloadCancel
    \/ Return("reload")

\* The reload loop takes a buffered event whenever it is at its select.
SpecReloadLive == Init /\ [][TNext]_vars /\ WF_vars(ReloadRun)

SpecGroup == Init /\ [][GNext]_vars

\* Every goroutine that can take a step is scheduled.
SpecGroupLive == SpecGroup /\ WF_vars(GNext)

SpecCallbacks == Init /\ [][InvokeCallback]_vars

SpecLoops == Init /\ [][LNext]_vars

\* The startup, from every command line.
InitStartup ==
    /\ QInit /\ AInit /\ RInit /\ DInit /\ GInitWith("none") /\ XInit
    /\ \E f \in FlagSets : SInitWith(f, BootStart, [replica |-> "A"], FALSE)

SpecStartup == InitStartup /\ [][BNext]_vars

\* Recording rules, under every external label set.
InitRecord ==
    /\ QInit /\ AInit /\ RInit /\ DInit /\ GInit /\ XInit
    /\ \E l \in ExtLabelSets : SInitWith([queries |-> queryAddrs, files |-> 1], Booted, l, FALSE)

SpecRecord == InitRecord /\ [][RuleAppend]_vars

\* notify and the sender, keeping the last call of notify.
InitNotify ==
    /\ QInit /\ AInit /\ RInit /\ DInit /\ GInit /\ XInit
    /\ SInitWith([queries |-> queryAddrs, files |-> 1], Booted, [replica |-> "A"], TRUE)

NNext ==
    \/ Notify
    \/ SenderPop
    \/ SenderSend

SpecNotify == InitNotify /\ [][NNext]_vars

\* ForeachStore, under every environment.
InitStore ==
    /\ QInit /\ AInit /\ RInit /\ DInit /\ GInit /\ SInit
    /\ \E env \in Environments : fs = FSStart(env)
    /\ UInit /\ SDInit /\ RcvInit

SpecStore == InitStore /\ [][FSNext]_vars

SpecAMUpdate == Init /\ [][UNext]_vars

SpecFileSD == Init /\ [][FNext]_vars

\* runReceive, with and without a config watcher.
InitReceive ==
    /\ QInit /\ AInit /\ RInit /\ DInit /\ GInit /\ SInit
    /\ FSInit /\ UInit /\ SDInit
    /\ \E cw \in BOOLEAN : rcv = RcvStart(cw)

SpecReceive == InitReceive /\ [][RcvNext]_vars

\* Every goroutine that can take a step is scheduled.
SpecReceiveLive == SpecReceive /\ WF_vars(RcvProgress)

(***************************************************************************)
(* Properties.                                                             *)
(***************************************************************************)
RECURSIVE Flatten(_)
Flatten(ss) == IF ss = <<>> THEN <<>> ELSE Head(ss) \o Flatten(Tail(ss))

StrictlyIncreasing(s) == \A i, j \in 1..Len(s) : i < j => s[i] < s[j]

\* C1: a reload run whose Managers.Update fails sets the success gauge to 0
\* and changes nothing else: both managers keep their groups, the success
\* timestamp and the loaded-rules gauge keep their values.
FailedReloadChangesOnlyGauge ==
    [][(now' = now + 1 /\ reloadErr' = "failed")
          => /\ configSuccess' = 0
             /\ ruleMgrs' = ruleMgrs
             /\ configSuccessTime' = configSuccessTime
             /\ rulesLoaded' = rulesLoaded]_vars

\* A failed reload that followed a successful one: groups are live and the
\* timestamp is set, and the gauge is 0.
FailedReloadAfterSuccess ==
    /\ reloadErr = "failed"
    /\ configSuccess = 0
    /\ configSuccessTime > 0
    /\ ruleMgrs["ABORT"] # {}
    /\ rulesLoaded # {}

\* C2: the alert queue never holds more alerts than its capacity.
QueueWithinCapacity == Len(queue) <= QueueCapacity

\* The queue is full after pushes that overflowed it and pops that drained it.
QueueFullAfterPushAndPop ==
    /\ Len(queue) = QueueCapacity
    /\ popLog # <<>>
    /\ nextId > QueueCapacity + 1

\* C3: a Push that overflows evicts the oldest entries, leaves the queue at
\* exactly its capacity and adds the overflow to the drop counter; a Push
\* that fits evicts nothing and leaves the drop counter alone.
PushEvictsOldest ==
    [][nextId' > nextId
          => LET all == Ids(queue) \o [i \in 1..(nextId' - nextId) |-> nextId + i - 1]
                 d == Len(all) - QueueCapacity
             IN  IF d > 0
                 THEN /\ Ids(queue') = SubSeq(all, d + 1, Len(all))
                      /\ Len(queue') = QueueCapacity
                      /\ qDropped' = qDropped + d
                      /\ evicted' = evicted \cup {all[i] : i \in 1..d}
                 ELSE /\ Ids(queue') = all
                      /\ qDropped' = qDropped
                      /\ evicted' = evicted]_vars

\* An overflowing Push has happened: the oldest notification is gone.
PushHasEvicted ==
    /\ qDropped = 1
    /\ evicted = {1}
    /\ Len(queue) = QueueCapacity
    /\ queue[1].id = 2

\* C4: a Pop that returns alerts returns the min(length, max-batch) oldest
\* ones in push order and removes exactly those; what the Pops returned, then
\* what is queued, is in push order without repetition, and with the evicted
\* alerts it is every alert pushed.
PopFifoExactlyOnce ==
    [][/\ (Len(popLog') = Len(popLog) + 1 /\ popLog'[Len(popLog')] # <<>>)
             => LET n == Min(Len(queue), MaxBatch)
                IN  /\ popLog'[Len(popLog')] = Ids(SubSeq(queue, 1, n))
                    /\ sender'.batch = SubSeq(queue, 1, n)
                    /\ queue' = SubSeq(queue, n + 1, Len(queue))
       /\ LET popped == Flatten(popLog')
          IN  /\ StrictlyIncreasing(popped \o Ids(queue'))
              /\ Range(popped) \cap evicted' = {}
              /\ Range(popped) \cup Range(Ids(queue')) \cup evicted' = 1..(nextId' - 1)]_vars

\* Two Pops have returned: a full batch, then the rest.
TwoPopsReturned ==
    /\ Len(popLog) >= 2
    /\ Len(popLog[1]) = MaxBatch
    /\ Len(popLog[2]) = 1
    /\ popLog[2][1] = MaxBatch + 1

\* C5: a Send of a batch to which at least one replica answers 2xx, whatever
\* the others answer, adds the batch size to the sent counter and leaves the
\* dropped counter alone.
SendSucceedsOnOneAck ==
    [][(Len(sendLog') = Len(sendLog) + 1 /\ sender.batch # <<>> /\ lastReplies'.ok)
          => /\ sent' = sent + Len(sender.batch)
             /\ dropped' = dropped]_vars

\* A batch was sent to replicas of which one accepted and another failed.
SentWithOneReplicaFailing ==
    /\ lastReplies.ok
    /\ lastReplies.fail
    /\ sent > 0
    /\ dropped = 0

\* C6: the batches handed to Send are the batches Pop returned, each once
\* and in order, and no alert of a batch Pop returned is in the queue again.
SenderSendsEachPopOnce ==
    /\ sender.pc = "send" => popLog = Append(sendLog, Ids(sender.batch))
    /\ sender.pc # "send" => popLog = sendLog /\ sender.batch = <<>>
    /\ \A i \in 1..Len(popLog) : Range(popLog[i]) \cap Range(Ids(queue)) = {}

\* A batch was dropped by Send and the sender now holds the next batch.
SenderHoldsNextAfterDrop ==
    /\ dropped > 0
    /\ sender.pc = "send"
    /\ sender.batch # <<>>
    /\ Len(sendLog) = 1

\* C7: the requests of a call follow the permutation drawn for it; an answer
\* that succeeds is the last request of the call and its vector is returned
\* with nil error; a call that returns with nil error made one request more
\* than the failures before it.
QueryReturnsFirstAnswer ==
    /\ qf.perm \in Perm(Len(qf.addrs))
    /\ \A j \in 1..Len(qf.reqs) :
          /\ qf.reqs[j].idx = qf.perm[j]
          /\ qf.reqs[j].addr = qf.addrs[qf.perm[j]]
          /\ qf.reqs[j].ok => /\ j = Len(qf.reqs)
                              /\ qf.pc = "done"
                              /\ qf.res = [err |-> ErrNil, v |-> VectorOf(qf.reqs[j].addr)]
    /\ (qf.pc = "done" /\ qf.res.err = ErrNil)
          => /\ qf.reqs # <<>>
             /\ qf.reqs[Len(qf.reqs)].ok
             /\ Len(qf.reqs) = Cardinality({j \in 1..Len(qf.reqs) : ~qf.reqs[j].ok}) + 1

\* A call returned the second address's vector after the first one failed.
QuerySucceededOnSecondTry ==
    /\ qf.pc = "done"
    /\ qf.res.err = ErrNil
    /\ Len(qf.reqs) = 2
    /\ ~qf.reqs[1].ok
    /\ qf.reqs[1].addr # qf.reqs[2].addr
    /\ qf.res.v = VectorOf(qf.reqs[2].addr)

\* C8: a call on an empty snapshot returns "no query peer reachable" and
\* makes no request.
QueryEmptySnapshotFails ==
    (qf.pc # "idle" /\ qf.addrs = <<>>)
        => /\ qf.pc = "done"
           /\ qf.res = [err |-> ErrNoPeer, v |-> NoVector]
           /\ qf.reqs = <<>>
           /\ qf.tried = <<>>

\* A call was made while the snapshot was empty.
QueryCalledOnEmptySnapshot ==
    /\ qf.pc = "done"
    /\ qf.addrs = <<>>
    /\ ncalls > 0

\* C9 (as claimed): in one call every distinct address receives at most one
\* request, and the requests are no more than the distinct addresses.
QueryOneRequestPerAddress ==
    /\ \A a \in QueryAddrs :
          Cardinality({j \in 1..Len(qf.reqs) : qf.reqs[j].addr = a}) <= 1
    /\ Len(qf.reqs) <= Cardinality(Range(qf.addrs))

\* C10 (as claimed): a call on a non-empty snapshot returns an error only
\* when every address of the snapshot was tried.
QueryErrorOnlyAfterAllTried ==
    (qf.pc = "done" /\ qf.res.err # ErrNil /\ qf.addrs # <<>>)
        => Range(qf.tried) = 1..Len(qf.addrs)

\* C11: an attempt of a WARN query function that succeeds returns the
\* server's vector with nil error and adds exactly 1 to the counter labelled
\* "warn" when the answer carries warnings, however many, and nothing when
\* it carries none.
WarnEvaluationCountedOnce ==
    [][(qf.pc = "loop" /\ qf.strategy = "WARN" /\ Len(qf'.reqs) = Len(qf.reqs) + 1
          /\ qf'.reqs[Len(qf'.reqs)].ok)
          => LET r == qf'.reqs[Len(qf'.reqs)]
             IN  /\ qf'.pc = "done"
                 /\ qf'.res = [err |-> ErrNil, v |-> VectorOf(r.addr)]
                 /\ ruleEvalWarnings'["WARN"] =
                       ruleEvalWarnings["WARN"] + (IF r.warns > 0 THEN 1 ELSE 0)]_vars

\* The one evaluation made so far, by the WARN function, returned a vector
\* with two warnings and was counted once.
WarnCallCountedOnce ==
    /\ ncalls = 1
    /\ qf.pc = "done"
    /\ qf.strategy = "WARN"
    /\ qf.res.err = ErrNil
    /\ qf.reqs[Len(qf.reqs)].warns = 2
    /\ ruleEvalWarnings["WARN"] = 1

\* C12 (as claimed): the counter labelled with the ABORT strategy stays 0.
AbortWarningsStayZero == ruleEvalWarnings["ABORT"] = 0

\* C13 (as claimed): once the context of a call on distinct addresses is
\* cancelled, the call reaches no further address beyond the one it was at.
CancelStopsRetryLoop ==
    (qctx.done /\ ncalls = qctx.call /\ Cardinality(Range(qf.addrs)) = Len(qf.addrs))
        => Len(qf.tried) <= qctx.at + 1

\* C14 (as claimed): on a fixed list of two or more distinct addresses, a
\* call tries first another address than the call before it did.
QueryFirstAddressAdvances ==
    [][(ncalls' = ncalls + 1 /\ qf.pc = "done" /\ qf'.addrs = qf.addrs
          /\ Len(qf.addrs) > 1 /\ Cardinality(Range(qf.addrs)) = Len(qf.addrs))
          => qf'.addrs[qf'.perm[1]] # qf.addrs[qf.perm[1]]]_vars

\* C15 (as claimed): a call that starts has every address of the file SD
\* cache among the addresses it may attempt.
FileSDAddressInSnapshot ==
    [][ncalls' = ncalls + 1 => Range(fileSDCache) \subseteq Range(qf'.addrs)]_vars

\* C16: a call that starts while a round is running takes the snapshot
\* published before the round began, a call that starts otherwise the
\* complete list of the last round; and a running round does not keep a
\* call from starting.
AddressesIsCompleteSnapshot ==
    /\ [][ncalls' = ncalls + 1
            => qf'.addrs = IF round.active THEN round.pre ELSE round.input]_vars
    /\ []((round.active /\ qf.pc \in {"idle", "done"} /\ ncalls < MaxCalls)
            => ENABLED (\E s \in Strategies : QueryCall(s)))

\* A call started while the second round had filled one of its two
\* addresses: it took the first round's snapshot.
CallDuringRound ==
    /\ round.active
    /\ round.reads = 1
    /\ Len(round.input) = 2
    /\ Len(round.buf) = 1
    /\ round.pre = queryAddrs
    /\ qf.pc = "loop"
    /\ qf.tried = <<>>
    /\ qf.addrs = queryAddrs

\* Whether a configured Alertmanager URL begins with dns+ or dnssrv+, and
\* the URL that follows the prefix.
HasDNSPrefix(addr) == Len(addr) >= 2 /\ addr[2] = "+" /\ addr[1] \in {"dns", "dnssrv"}

ConfiguredURL(addr) == URLParse(IF HasDNSPrefix(addr) THEN SubSeq(addr, 3, Len(addr)) ELSE addr)

\* The number of URLs the entries before entry i contributed.
RECURSIVE URLsBefore(_, _)
URLsBefore(trace, i) ==
    IF i <= 1 THEN 0 ELSE URLsBefore(trace, i - 1) + Len(trace[i - 1].records)

\* C17 (as claimed): after an update in which the lookup of one entry
\* failed, the error counter was incremented and get() holds the URL of
\* every other entry that needs no lookup.
FailedLookupKeepsOtherEntries ==
    (amLast.kind = "err" /\ HasDNSPrefix(amAddrs[Len(amLast.trace)]))
        => /\ amErrors > 0
           /\ \A i \in 1..Len(amAddrs) :
                 (i # Len(amLast.trace) /\ IndexOf(amAddrs[i], "+") = 0)
                    => \E j \in 1..Len(amCurrent) :
                          /\ amCurrent[j].scheme = ConfiguredURL(amAddrs[i]).scheme
                          /\ amCurrent[j].host = ConfiguredURL(amAddrs[i]).host

\* C18: after a successful update, an entry with dns+ or dnssrv+ whose
\* lookup returned N records has exactly N URLs in get(), at the place of
\* the entry in configuration order and in record order, each with the
\* configured scheme, path and user info and one record as host.
DnsEntryExpandsToRecords ==
    amLast.kind = "ok"
        => /\ Len(amLast.trace) = Len(amAddrs)
           /\ Len(amCurrent) = URLsBefore(amLast.trace, Len(amAddrs) + 1)
           /\ \A i \in 1..Len(amAddrs) :
                 HasDNSPrefix(amAddrs[i])
                    => \A j \in 1..Len(amLast.trace[i].records) :
                          amCurrent[URLsBefore(amLast.trace, i) + j] =
                             [scheme |-> ConfiguredURL(amAddrs[i]).scheme,
                              host |-> amLast.trace[i].records[j],
                              path |-> ConfiguredURL(amAddrs[i]).path,
                              user |-> ConfiguredURL(amAddrs[i]).user]

\* A lookup after a static entry returned two records: get() holds the
\* static URL, then one URL per record in record order.
DnsEntryGaveTwoURLs ==
    /\ amLast.kind = "ok"
    /\ amAddrs = <<AMStatic, AMDns>>
    /\ Len(amCurrent) = 3
    /\ amCurrent[1].host = <<"am1", ":", "9">>
    /\ amCurrent[2] = [scheme |-> "http://", host |-> <<"ip2", ":", "9093">>,
                       path |-> <<"/p">>, user |-> <<"u">>]
    /\ amCurrent[3] = [scheme |-> "http://", host |-> <<"ip1", ":", "9093">>,
                       path |-> <<"/p">>, user |-> <<"u">>]

\* C19: the host handed to the resolver is the configured host followed by
\* ":9093" when the entry has the dns+ prefix and the configured host has
\* no port, and the configured host itself otherwise.
DefaultPortOnlyForDnsWithoutPort ==
    \A i \in 1..Len(amLast.trace) :
        HasDNSPrefix(amAddrs[i])
           => LET h == ConfiguredURL(amAddrs[i]).host
              IN  /\ amLast.trace[i].qtype = <<amAddrs[i][1]>>
                  /\ amLast.trace[i].host =
                        IF amAddrs[i][1] = "dns" /\ \A k \in 1..Len(h) : h[k] # ":"
                        THEN h \o <<":", "9093">>
                        ELSE h

\* An update looked up a dns+ host without port with the default port and
\* a dnssrv+ host without port as it is.
LookedUpWithAndWithoutDefaultPort ==
    /\ amAddrs = <<AMDns, AMSrv>>
    /\ Len(amLast.trace) = 2
    /\ amLast.trace[1].host = <<"am2", ":", "9093">>
    /\ amLast.trace[2].host = <<"am3">>

\* C20 (as claimed): an entry without the dns+ or dnssrv+ prefix is not
\* handed to the resolver, and after a successful update it has exactly one
\* URL in get(), with the configured scheme, host, path and user info.
PassthroughEntryNotResolved ==
    \A i \in 1..Len(amLast.trace) :
        ~HasDNSPrefix(amAddrs[i])
           => /\ amLast.trace[i].qtype = <<>>
              /\ amLast.kind = "ok"
                    => /\ Len(amLast.trace[i].records) = 1
                       /\ amCurrent[URLsBefore(amLast.trace, i) + 1] =
                             [scheme |-> ConfiguredURL(amAddrs[i]).scheme,
                              host |-> ConfiguredURL(amAddrs[i]).host,
                              path |-> ConfiguredURL(amAddrs[i]).path,
                              user |-> ConfiguredURL(amAddrs[i]).user]

\* C22: there are exactly two rule managers, one per strategy; every query
\* a manager has sent carries that manager's strategy; and a manager's
\* context is cancelled only once the callback of its own actor was invoked.
ManagersKeepTheirStrategy ==
    /\ DOMAIN ManagerSetup = {"ABORT", "WARN"}
    /\ \A q \in issued : q.strategy = q.mgr
    /\ \A s \in Strategies :
          /\ s \in mgrCtxDone => sig[MgrActor[s]] = "closed"
          /\ s \in mgrStopped => sig[MgrActor[s]] = "closed"

\* Both managers have sent a query, and the ABORT manager was stopped while
\* the WARN manager's actor still runs.
OneManagerStoppedOtherRuns ==
    /\ Cardinality(issued) = 2
    /\ mgrCtxDone = {"ABORT"}
    /\ mgrStopped = {"ABORT"}
    /\ sig["mgrWARN"] = "open"
    /\ "mgrWARN" \notin returned

\* C23: the startup performs a reload no trigger asked for (n = 0), and
\* every trigger, a delivered SIGHUP or an accepted POST, is followed by a
\* reload run that begins after it, unless the loop is cancelled.
EveryTriggerIsServed ==
    \A n \in 0..MaxTriggers :
        (ntriggers = n) ~> (served >= n \/ sig["reload"] = "closed")

\* One run has served every trigger, a SIGHUP that found the channel full
\* included, and the loop is not cancelled.
AllTriggersServedByOneRun ==
    /\ ntriggers = MaxTriggers
    /\ served = MaxTriggers
    /\ now = 1
    /\ sig["reload"] = "open"

\* C24 (as claimed): the handler of POST /-/reload can always complete: the
\* channel has room for its event, or the reload loop is still there to
\* make room.
PostHandlerCanComplete ==
    post = "sending" => (reload < 1 \/ "reload" \notin returned)

ShutdownCallbacksIdempotent == ~panicked

\* C27 (as claimed): db.Close() begins only after Stop has returned for
\* both rule managers.
TSDBClosedAfterManagersStop ==
    db # "open" => mgrStopped = Strategies

\* C28: a failed alertmanager refresh or a failed shipper Sync does not end
\* its loop: the step of a failed call leaves the loop running for its next
\* tick, a loop has returned only if its context is cancelled, and a failed
\* refresh adds exactly one to the error counter and leaves current alone.
TransientFailuresNotFatal ==
    [][/\ \A a \in {"amRefresh", "shipper"} : a \in returned' => sig'[a] = "closed"
       /\ (amErrors' # amErrors \/ (amLast' # amLast /\ amLast'.kind = "err"))
             => /\ amErrors' = amErrors + 1
                /\ amLast'.kind = "err"
                /\ UNCHANGED <<amCurrent, returned>>
       /\ (Len(syncs') > Len(syncs) /\ syncs'[Len(syncs')] = "err")
             => UNCHANGED returned]_vars

\* After a failed refresh and a failed Sync both loops made their next call.
LoopsWentOnAfterFailure ==
    /\ amErrors = 1
    /\ amLast.kind = "ok"
    /\ syncs = <<"err", "ok">>
    /\ returned = {}

\* C21: a call of notify makes one Push whose argument holds exactly one
\* notification per input alert that is not Pending, in the order of the
\* input, and no notification of a Pending alert (zero FiredAt) is queued.
NotifyPushesNonPendingInOrder ==
    [][(notifyLog' # notifyLog \/ nextId' # nextId)
          => LET np == SelectSeq(notifyLog'.alerts, LAMBDA a : a.State # "Pending")
                 want == [i \in 1..Len(np) |->
                             [id |-> nextId + i - 1,
                              StartsAt |-> np[i].FiredAt,
                              EndsAt |-> np[i].ResolvedAt]]
             IN  /\ notifyLog'.res = want
                 /\ nextId' = nextId + Len(np)
                 /\ queue' = Push(queue, want).queue
                 /\ \A i \in 1..Len(queue') : queue'[i].StartsAt # 0]_vars

\* notify was called with a pending alert between a firing and a resolved
\* one, and the two notifications are queued.
MixedAlertsNotified ==
    /\ notifyLog.alerts = MixedAlerts
    /\ Len(notifyLog.res) = 2
    /\ Len(queue) >= 2
    /\ queue[Len(queue)].EndsAt = 2

\* C29 (as claimed): every series a recording rule has appended to the
\* local TSDB carries every external label with its external value.
AppendedSeriesCarryExternalLabels ==
    \A l \in head : \A n \in DOMAIN lset : n \in DOMAIN l /\ l[n] = lset[n]

\* C30: with a duplicate --query address, an empty static query address, or
\* neither a --query nor a file-SD file, the startup never gets to open the
\* TSDB or to add an actor, and where it has ended it has ended in an error.
InvalidQueryConfigFailsEarly ==
    (\/ \E i, j \in 1..Len(flags.queries) : i # j /\ flags.queries[i] = flags.queries[j]
     \/ \E i \in 1..Len(flags.queries) : flags.queries[i] = <<>>
     \/ (Len(flags.queries) = 0 /\ flags.files = 0))
       => /\ db = "none"
          /\ boot.added = 0
          /\ boot.pc \in {"dupCheck", "noQuery", "emptyCheck", "failed"}
          /\ boot.pc = "failed" => boot.err \in {ErrDuplicated, ErrNoQuery, ErrEmptyAddr}

\* The startup has failed on an empty address that came after a valid one,
\* with file SD configured.
FailedOnEmptyAddress ==
    /\ flags = [queries |-> <<AddrA, <<>> >>, files |-> 1]
    /\ boot.pc = "failed"
    /\ boot.err = ErrEmptyAddr
    /\ db = "none"
    /\ boot.added = 0

\* C31 (as claimed): ForeachStore runs the in-memory test first and visits
\* the backends in their fixed order; once it has returned, the test of a
\* backend has run if and only if its variable is absent from the
\* environment and every test run before it passed; and no backend is
\* contacted after a failed test.
BackendTestRunsIffNotSkipped ==
    /\ fs.ran # <<>> => fs.ran[1] = "inmem"
    /\ \A i, j \in 1..Len(fs.contacted) :
          i < j => \E m, n \in 1..Len(Backends) :
                      m < n /\ Backends[m] = fs.contacted[i] /\ Backends[n] = fs.contacted[j]
    /\ fs.pc = "returned"
          => \A k \in 1..Len(Backends) :
                (TestName[Backends[k]] \in Range(fs.ran))
                   <=> /\ fs.env[SkipVar[Backends[k]]] = "unset"
                       /\ "inmem" \in fs.passed
                       /\ \A m \in 1..(k - 1) :
                             TestName[Backends[m]] \in Range(fs.ran)
                                => TestName[Backends[m]] \in fs.passed

\* C32: an update that returns an error leaves the list of get() exactly as
\* it was before the call, and what get() returns, also while an update is
\* running, is the empty initial list or the list of one complete pass over
\* all configured entries.
FailedUpdateKeepsWholeList ==
    [][/\ (upd.pc = "loop" /\ upd'.pc = "idle" /\ upd'.err)
             => (amCurrent' = amCurrent /\ amCurrent' = upd.before)
       /\ upd'.got \in {<<>>} \cup {o.result : o \in {r \in UpdateFrom(1, <<>>, <<>>) : ~r.err}}
       /\ upd'.got \in {upd.got, amCurrent}]_vars

\* An update failed at its second entry with the URL of the first already
\* built, and get() returned the full list of the update before.
GetAfterFailedSecondEntry ==
    /\ upd.pc = "idle"
    /\ upd.err
    /\ Len(upd.result) = 1
    /\ Len(amCurrent) = 3
    /\ upd.got = amCurrent

PendingReloadsCoalesce ==
    [][/\ reload' \in 0..1
       /\ ("sighup" \notin returned /\ ntriggers < MaxTriggers) => ENABLED Sighup
       /\ (ntriggers' = ntriggers + 1 /\ post' = post /\ reload = 1)
             => (reload' = 1 /\ now' = now /\ served' = served)
       /\ now' # now => (reload = 1 /\ reload' = 0 /\ now' = now + 1 /\ served' = ntriggers)]_vars

\* Two SIGHUPs arrived while the startup's request was pending; one run
\* served them and nothing is pending.
BurstServedByOneRun ==
    /\ ntriggers = 2
    /\ now = 1
    /\ served = 2
    /\ reload = 0
    /\ post = "idle"

\* C35: a nil update, whether sent by the discoverer or read from the
\* closed channel, leaves the view of the file-SD cache as it was; the view
\* changes only when a non-nil update is received, and then it is that
\* update's addresses and nothing else.
NilUpdateLeavesView ==
    [][/\ (sd.disc = "send" /\ sd'.disc = "watch")
             => fileSDCache' = IF sd.msg.nil THEN fileSDCache ELSE sd.msg.addrs
       /\ sd'.closedNils # sd.closedNils => fileSDCache' = fileSDCache
       /\ fileSDCache' # fileSDCache
             => (sd.disc = "send" /\ sd'.disc = "watch" /\ ~sd.msg.nil
                 /\ fileSDCache' = sd.msg.addrs)]_vars

\* A nil update was received while the view held an address.
NilReceivedOverNonEmptyView ==
    /\ sd.last.nil
    /\ sd.disc = "watch"
    /\ fileSDCache = <<AddrB>>

\* C36 (as claimed): no value is sent on fileSDUpdates after it was closed.
NoSendOnClosedUpdates == sd.disc # "panicked"

\* C37: the handler is given what the first select received; what the
\* second select receives clears the handler's ring and is not installed;
\* the consumer receives at most twice, so the handler is never given a
\* ring again and later updates stay unconsumed.
HandlerGivenFirstHashringOnly ==
    /\ Len(rcv.recvd) <= 2
    /\ Len(rcv.given) = Len(rcv.recvd)
    /\ Len(rcv.given) >= 1 => rcv.given[1] = rcv.recvd[1]
    /\ Len(rcv.given) = 2 => rcv.given[2] = NilHashring
    /\ rcv.hashring = IF rcv.given = <<>> THEN NilHashring ELSE rcv.given[Len(rcv.given)]
    /\ rcv.cons = "third" => (Len(rcv.given) = 2 /\ rcv.hashring = NilHashring)

\* The handler got the first ring and lost it on the second; the third
\* ring waits at the producer's send with nobody to receive it.
ThirdHashringNotConsumed ==
    /\ rcv.cw
    /\ rcv.given = <<1, NilHashring>>
    /\ rcv.recvd = <<1, 2>>
    /\ rcv.cons = "third"
    /\ rcv.prod = "send"
    /\ rcv.nsent = 2
    /\ rcv.grp = "run"

\* C38 (as claimed): the gRPC Store server is built only over a TSDB that
\* was opened and installed in the ready storage.
StoreBuiltOverOpenedTSDB == rcv.s => rcv.builtOver = "db"

\* C39 (as claimed): when the run group has terminated, a TSDB that was
\* opened has been closed.
OpenedTSDBClosedAtExit == rcv.grp = "done" => rcv.db # "open"

\* C40 (as claimed): once every shutdown callback has been invoked, every
\* actor returns.
EveryReceiveActorReturns ==
    (rcv.grp = "wait") ~> (rcv.returned = Range(RActors))

=============================================================================
